---- MODULE Spec2Model ----
(***************************************************************************)
(* A model of the poornn operator library: the parameter-free operators of *)
(* poornn/functions.py and the trainable layers of poornn/linears.py.      *)
(*                                                                         *)
(* Tensors are records [shape, data]: shape is a sequence of extents and   *)
(* data maps every 0-based multi-index of that shape to a value.  Python   *)
(* exceptions are the "err" field of a result ("none" when the call        *)
(* returns).                                                               *)
(***************************************************************************)
EXTENDS Integers, Sequences, FiniteSets, TLC

VARIABLES
    ctor,       \* the outcome of the most recent operator construction
    fac,        \* the outcome of the most recent wrapfunc call
    ten,        \* one Sum, Reshape or Transpose instance and its calls
    lin,        \* one Linear or Apdot layer: its class, weight and bias
    lin_call,   \* the most recent call on the layer
    heap,       \* the buffers of the arrays allocated so far
    cur,        \* the array the caller passes to the next call (or None)
    np_random,  \* the state of the process-wide random stream
    drop,       \* the DropOut instances
    loss,       \* one loss instance (CrossEntropy, SoftMaxCrossEntropy, SquareLoss)
    call,       \* the most recent call: operator, method, arguments, outcome
    ncalls,     \* the number of forward and backward calls made
    stage,      \* the operator at the head of a pipeline (Cache, Reshape, ...)
    obs         \* what the caller saw: the arguments given to the Cache since the
                \* last clear, and the input of the latest forward with its value

rt == <<heap, cur, np_random, drop, loss, call, ncalls, stage, obs>>

vars == <<ctor, fac, ten, lin, lin_call, rt>>

(***************************************************************************)
(* Bounds of the model.                                                    *)
(***************************************************************************)
MaxRank == 3        \* largest rank of an input shape of a constructor call
MaxDim == 2         \* largest extent of one axis
AxisSpan == 2       \* axis arguments range over -rank-AxisSpan .. rank-1+AxisSpan
MaxNameLen == 2     \* longest class or attribute name given to wrapfunc
MaxFields == 2      \* largest number of attribute names given to wrapfunc
MaxVal == 6         \* largest parameter entry reached by additive updates
MaxCalls == 2       \* largest number of forward and backward calls
MaxSeed == 1        \* seeds range over 0..MaxSeed
MaxKeepInv == 2     \* keep_rate ranges over 1/1 .. 1/MaxKeepInv
MaxArrays == 2      \* largest number of arrays the caller of a pipeline allocates
MaxSteps == 3       \* largest number of calls made on a pipeline
MaxImg == 3         \* largest extent of an image axis, of a kernel axis and of a stride

(***************************************************************************)
(* Python helpers.                                                         *)
(***************************************************************************)
None == "None"

\* None in an attribute or variable that otherwise holds an object; a bound
\* runtime attribute holds [val |-> value].
NoneObj == [is_none |-> TRUE]

\* The clamped bound of a Python slice s[lo:hi] on a sequence of length n.
PyBound(i, n) ==
    IF i < 0 THEN (IF i + n < 0 THEN 0 ELSE i + n)
    ELSE IF i > n THEN n ELSE i

\* s[lo:hi] of a tuple (0-based, negative bounds count from the end).
PySlice(s, lo, hi) ==
    LET a == PyBound(lo, Len(s))
        b == PyBound(hi, Len(s))
    IN  IF b <= a THEN <<>> ELSE SubSeq(s, a + 1, b)

\* s[lo:] of a tuple.
PySliceFrom(s, lo) == PySlice(s, lo, Len(s))

\* All shapes of rank 0..r with extents 1..d.
ShapesUpTo(r, d) == UNION {[1..n -> 1..d] : n \in 0..r}

Shapes == ShapesUpTo(MaxRank, MaxDim)

AxisArgs(shape) == (0 - Len(shape) - AxisSpan) .. (Len(shape) - 1 + AxisSpan)

(***************************************************************************)
(* Constructors.  Function.__init__ stores input_shape, output_shape and   *)
(* the tags; a constructor that raises yields no instance.                 *)
(***************************************************************************)
NoInstance(e) == [err |-> e]

Function_init(cls, input_shape, output_shape, axis) ==
    [err |-> "none", cls |-> cls, input_shape |-> input_shape,
     output_shape |-> output_shape, axis |-> axis]

\* The axis handling shared by Sum, Mean, DropOut and CrossEntropy:
\*   if axis > len(input_shape)-1: raise ValueError('invalid axis')
\*   self.axis = axis % len(input_shape)
AxisCheck(input_shape, axis) ==
    IF axis > Len(input_shape) - 1 THEN "ValueError"
    ELSE IF Len(input_shape) = 0 THEN "ZeroDivisionError"
    ELSE "none"

NormAxis(input_shape, axis) == axis % Len(input_shape)

Sum_init(input_shape, axis) ==
    IF AxisCheck(input_shape, axis) # "none"
    THEN NoInstance(AxisCheck(input_shape, axis))
    ELSE LET a == NormAxis(input_shape, axis)
         IN  Function_init("Sum", input_shape,
                 PySlice(input_shape, 0, a) \o PySliceFrom(input_shape, a + 1), a)

Mean_init(input_shape, axis) ==
    IF AxisCheck(input_shape, axis) # "none"
    THEN NoInstance(AxisCheck(input_shape, axis))
    ELSE LET a == NormAxis(input_shape, axis)
         IN  Function_init("Mean", input_shape,
                 PySlice(input_shape, 0, a) \o PySliceFrom(input_shape, a + 1), a)

DropOut_init(input_shape, axis) ==
    IF AxisCheck(input_shape, axis) # "none"
    THEN NoInstance(AxisCheck(input_shape, axis))
    ELSE Function_init("DropOut", input_shape, input_shape,
                       NormAxis(input_shape, axis))

\* SoftMax stores the axis as given, without any check.
SoftMax_init(input_shape, axis) ==
    Function_init("SoftMax", input_shape, input_shape, axis)

CrossEntropy_init(input_shape, axis) ==
    IF AxisCheck(input_shape, axis) # "none"
    THEN NoInstance(AxisCheck(input_shape, axis))
    ELSE LET a == NormAxis(input_shape, axis)
         IN  Function_init("CrossEntropy", input_shape,
                 PySlice(input_shape, 0, a) \o PySliceFrom(input_shape, a + 1), a)

\* SoftMaxCrossEntropy slices with the axis as given on the left and with
\* the normalised axis on the right.
\* Mutant of SoftMaxCrossEntropy_init: the axis as given on both sides.
SoftMaxCrossEntropy_init_RawAxis(input_shape, axis) ==
    IF AxisCheck(input_shape, axis) # "none"
    THEN NoInstance(AxisCheck(input_shape, axis))
    ELSE Function_init("SoftMaxCrossEntropy", input_shape,
             PySlice(input_shape, 0, axis) \o PySliceFrom(input_shape, axis + 1),
             NormAxis(input_shape, axis))

SoftMaxCrossEntropy_init(input_shape, axis) ==
    IF AxisCheck(input_shape, axis) # "none"
    THEN NoInstance(AxisCheck(input_shape, axis))
    ELSE LET a == NormAxis(input_shape, axis)
         IN  Function_init("SoftMaxCrossEntropy", input_shape,
                 PySlice(input_shape, 0, axis) \o PySliceFrom(input_shape, a + 1), a)

\* BatchNorm with an axis (axis is not None).
BatchNorm_init(input_shape, axis) ==
    IF AxisCheck(input_shape, axis) # "none"
    THEN NoInstance(AxisCheck(input_shape, axis))
    ELSE Function_init("BatchNorm", input_shape, input_shape,
                       NormAxis(input_shape, axis))

AxisOps == {"Sum", "Mean", "DropOut", "SoftMax", "CrossEntropy",
            "SoftMaxCrossEntropy", "BatchNorm"}

Construct(cls, input_shape, axis) ==
    CASE cls = "Sum" -> Sum_init(input_shape, axis)
      [] cls = "Mean" -> Mean_init(input_shape, axis)
      [] cls = "DropOut" -> DropOut_init(input_shape, axis)
      [] cls = "SoftMax" -> SoftMax_init(input_shape, axis)
      [] cls = "CrossEntropy" -> CrossEntropy_init(input_shape, axis)
      [] cls = "SoftMaxCrossEntropy" -> SoftMaxCrossEntropy_init(input_shape, axis)
      [] cls = "BatchNorm" -> BatchNorm_init(input_shape, axis)

(***************************************************************************)
(* The operator factory.  A name is a sequence of characters; "a" stands   *)
(* for a letter, "1" for a digit, "-" for any character that is neither    *)
(* alphanumeric nor an underscore.                                         *)
(***************************************************************************)
Chars == {"a", "1", "_", "-"}

isalnum(c) == c \in {"a", "1"}

isdigit(c) == c = "1"

Names == UNION {[1..n -> Chars] : n \in 0..MaxNameLen}

FieldLists == UNION {[1..n -> Names] : n \in 0..MaxFields}

\* The body of the first loop for one name:
\*   if not all(c.isalnum() or c=='_' for c in name): raise ValueError
\*   if name[0].isdigit(): raise ValueError
\* name[0] of an empty name raises IndexError.
CheckName(name) ==
    IF \E i \in 1..Len(name) : ~(isalnum(name[i]) \/ name[i] = "_")
    THEN "ValueError"
    ELSE IF Len(name) = 0 THEN "IndexError"
    ELSE IF isdigit(name[1]) THEN "ValueError"
    ELSE "none"

\* for name in (classname,) + field_names: the error of the first name
\* that raises.
RECURSIVE CheckNames(_)
CheckNames(names) ==
    IF names = <<>> THEN "none"
    ELSE IF CheckName(Head(names)) # "none" THEN CheckName(Head(names))
    ELSE CheckNames(Tail(names))

\* The second loop, from field number i on, with the names seen so far.
RECURSIVE CheckFields(_, _, _)
CheckFields(field_names, i, seen_names) ==
    IF i > Len(field_names) THEN "none"
    ELSE LET name == field_names[i]
         IN  IF Len(name) > 0 /\ name[1] = "_" THEN "ValueError"
             ELSE IF name \in seen_names THEN "ValueError"
             ELSE CheckFields(field_names, i + 1, seen_names \cup {name})

wrapfunc(classname, field_names) ==
    IF CheckNames(<<classname>> \o field_names) # "none"
    THEN [err |-> CheckNames(<<classname>> \o field_names)]
    ELSE IF CheckFields(field_names, 1, {}) # "none"
    THEN [err |-> CheckFields(field_names, 1, {})]
    ELSE [err |-> "none", name |-> classname, display_attrs |-> field_names]

(***************************************************************************)
(* Tensors (numpy arrays as values).                                       *)
(***************************************************************************)
RECURSIVE MaxOf(_)
MaxOf(s) == IF s = <<>> THEN 0
            ELSE IF Head(s) > MaxOf(Tail(s)) THEN Head(s) ELSE MaxOf(Tail(s))

RECURSIVE tuple_prod(_)
tuple_prod(s) == IF s = <<>> THEN 1 ELSE Head(s) * tuple_prod(Tail(s))

RECURSIVE SumSeq(_)
SumSeq(s) == IF s = <<>> THEN 0 ELSE Head(s) + SumSeq(Tail(s))

\* The 0-based multi-indices of an array of the given shape.
Indices(shape) ==
    IF shape = <<>> THEN {<<>>}
    ELSE {idx \in [1..Len(shape) -> 0..(MaxOf(shape) - 1)] :
             \A k \in 1..Len(shape) : idx[k] < shape[k]}

Tensor(shape, data) == [shape |-> shape, data |-> data]

\* idx with entry k inserted before 0-based position a.
InsertAt(idx, a, k) == SubSeq(idx, 1, a) \o <<k>> \o SubSeq(idx, a + 1, Len(idx))

\* idx without its entry at 0-based position a.
RemoveAt(idx, a) == SubSeq(idx, 1, a) \o SubSeq(idx, a + 2, Len(idx))

\* The column-major (order='F') linear position of idx: the first index
\* varies fastest.
RECURSIVE LinF(_, _)
LinF(idx, shape) ==
    IF idx = <<>> THEN 0
    ELSE Head(idx) + Head(shape) * LinF(Tail(idx), Tail(shape))

\* The multi-index at column-major linear position n.
RECURSIVE UnravelF(_, _)
UnravelF(n, shape) ==
    IF shape = <<>> THEN <<>>
    ELSE <<n % Head(shape)>> \o UnravelF(n \div Head(shape), Tail(shape))

\* The row-major (order='C') linear position of idx: the last index varies
\* fastest.
RECURSIVE LinC(_, _)
LinC(idx, shape) ==
    IF idx = <<>> THEN 0
    ELSE LinC(SubSeq(idx, 1, Len(idx) - 1), SubSeq(shape, 1, Len(shape) - 1))
           * shape[Len(shape)] + idx[Len(idx)]

\* np.sum(x, axis=a)
np_sum(x, a) ==
    LET n == x.shape[a + 1]
        oshape == RemoveAt(x.shape, a)
    IN  Tensor(oshape,
               [idx \in Indices(oshape) |->
                   SumSeq([k \in 1..n |-> x.data[InsertAt(idx, a, k - 1)]])])

\* t[(slice(None),)*a + (np.newaxis,)]: a new axis of extent 1 at position a.
NewAxisAt(t, a) ==
    LET nshape == InsertAt(t.shape, a, 1)
    IN  Tensor(nshape, [idx \in Indices(nshape) |-> t.data[RemoveAt(idx, a)]])

\* np.repeat(t, n, axis=a): every entry along axis a is repeated n times.
np_repeat(t, n, a) ==
    LET nshape == [t.shape EXCEPT ![a + 1] = @ * n]
    IN  Tensor(nshape,
               [idx \in Indices(nshape) |->
                   t.data[[idx EXCEPT ![a + 1] = @ \div n]]])

\* t.reshape(newshape, order='F'); numpy raises ValueError when the sizes
\* differ.
ReshapeImpl(t, newshape) ==
    Tensor(newshape,
           [idx \in Indices(newshape) |->
               t.data[UnravelF(LinF(idx, newshape), t.shape)]])

reshape_F(t, newshape) ==
    IF tuple_prod(newshape) # tuple_prod(t.shape) THEN [err |-> "ValueError"]
    ELSE [err |-> "none", val |-> ReshapeImpl(t, newshape)]

\* np.argsort(axes): position k holds the 0-based index of the k-th
\* smallest entry (ties in index order).
np_argsort(axes) ==
    LET before(i) == Cardinality({j \in 1..Len(axes) :
                         axes[j] < axes[i] \/ (axes[j] = axes[i] /\ j < i)})
    IN  [k \in 1..Len(axes) |->
            (CHOOSE i \in 1..Len(axes) : before(i) = k - 1) - 1]

IsPermutation(axes, n) ==
    /\ Len(axes) = n
    /\ \A v \in 0..(n - 1) : \E i \in 1..n : axes[i] = v

\* t.transpose(axes): axis i of the result is axis axes[i] of t.
TransposeImpl(t, axes) ==
    LET n == Len(t.shape)
        nshape == [i \in 1..n |-> t.shape[axes[i] + 1]]
    IN  Tensor(nshape,
               [idx \in Indices(nshape) |->
                   t.data[[m \in 1..n |->
                              idx[CHOOSE i \in 1..n : axes[i] + 1 = m]]]])

np_transpose(t, axes) ==
    IF ~IsPermutation(axes, Len(t.shape)) THEN [err |-> "ValueError"]
    ELSE [err |-> "none", val |-> TransposeImpl(t, axes)]

\* The placeholder core.EMPTY_VAR returned as the parameter gradient of a
\* parameter-free operator.
EMPTY_VAR == <<>>

(***************************************************************************)
(* Sum.                                                                    *)
(***************************************************************************)
Sum_forward(self, x) == np_sum(x, self.axis)

\* Mutant of Sum_dy_: the new axis always goes in front.
Sum_dy_Front(self, dy) == NewAxisAt(dy, 0)

\* dy_ of Sum.backward: a scalar dy gets its new axis in front.
Sum_dy_(self, dy) ==
    IF Len(dy.shape) = 0 THEN NewAxisAt(dy, 0) ELSE NewAxisAt(dy, self.axis)

Sum_backward(self, x, y, dy) ==
    <<EMPTY_VAR, np_repeat(Sum_dy_(self, dy), x.shape[self.axis + 1], self.axis)>>

(***************************************************************************)
(* Reshape and Transpose.                                                  *)
(***************************************************************************)
Reshape_init(input_shape, output_shape) ==
    [err |-> "none", cls |-> "Reshape", input_shape |-> input_shape,
     output_shape |-> output_shape]

Reshape_forward(self, x) == reshape_F(x, self.output_shape)

Reshape_backward(self, x, y, dy) ==
    LET r == reshape_F(dy, self.input_shape)
    IN  IF r.err # "none" THEN r ELSE [err |-> "none", val |-> <<EMPTY_VAR, r.val>>]

Transpose_init(input_shape, axes) ==
    IF Len(axes) # Len(input_shape) THEN NoInstance("ValueError")
    ELSE [err |-> "none", cls |-> "Transpose", input_shape |-> input_shape,
          output_shape |-> [i \in 1..Len(axes) |-> input_shape[axes[i] + 1]],
          axes |-> axes]

Transpose_forward(self, x) == np_transpose(x, self.axes)

\* Mutant of Transpose_backward: the forward permutation is applied again.
Transpose_backward_NoInverse(self, x, y, dy) ==
    LET r == np_transpose(dy, self.axes)
    IN  IF r.err # "none" THEN r ELSE [err |-> "none", val |-> <<EMPTY_VAR, r.val>>]

Transpose_backward(self, x, y, dy) ==
    LET r == np_transpose(dy, np_argsort(self.axes))
    IN  IF r.err # "none" THEN r ELSE [err |-> "none", val |-> <<EMPTY_VAR, r.val>>]

(***************************************************************************)
(* Linear and Apdot (poornn/linears.py).  The weight is a 2-d array of     *)
(* shape (fout, fin), the bias and the flattened parameter vector are 1-d  *)
(* arrays, modelled as sequences.                                          *)
(***************************************************************************)
\* t.ravel(order='F')
ravel_F(t) ==
    [n \in 1..tuple_prod(t.shape) |-> t.data[UnravelF(n - 1, t.shape)]]

\* The multi-index at row-major linear position n.
RECURSIVE UnravelC(_, _)
UnravelC(n, shape) ==
    IF shape = <<>> THEN <<>>
    ELSE UnravelC(n \div shape[Len(shape)], SubSeq(shape, 1, Len(shape) - 1))
           \o <<n % shape[Len(shape)]>>

\* t.ravel(order='C'), the row-major flattening.
ravel_C(t) ==
    [n \in 1..tuple_prod(t.shape) |-> t.data[UnravelC(n - 1, t.shape)]]

\* A 1-d array as a tensor.
AsTensor(v) == Tensor(<<Len(v)>>, [idx \in Indices(<<Len(v)>>) |-> v[idx[1] + 1]])

\* Mutant of Linear_get_variables: the weight is flattened in row-major order.
Linear_get_variables_C(self) == ravel_C(self.weight) \o self.bias

\* np.concatenate([self.weight.ravel(order='F'), self.bias])
Linear_get_variables(self) == ravel_F(self.weight) \o self.bias

Linear_num_variables(self) == tuple_prod(self.weight.shape) + Len(self.bias)

\* set_variables(variables, mode): the layer after the call and the error
\* raised, if any.  In mode 'set' the weight is copied before the bias
\* slice is reshaped, so a failure on the bias leaves the new weight.
Linear_set_variables(self, variables, mode) ==
    LET size == tuple_prod(self.weight.shape)
        w == reshape_F(AsTensor(PySlice(variables, 0, size)), self.weight.shape)
        b == PySliceFrom(variables, size)
    IN  CASE mode = "set" ->
               IF w.err # "none" THEN [err |-> w.err, self |-> self]
               ELSE IF Len(b) # Len(self.bias)
               THEN [err |-> "ValueError", self |-> [self EXCEPT !.weight = w.val]]
               ELSE [err |-> "none",
                     self |-> [self EXCEPT !.weight = w.val, !.bias = b]]
          [] mode = "add" ->
               IF Len(variables) < 2 THEN [err |-> "IndexError", self |-> self]
               ELSE [err |-> "none",
                     self |-> [self EXCEPT
                        !.weight = Tensor(self.weight.shape,
                            [idx \in Indices(self.weight.shape) |->
                                self.weight.data[idx] + variables[1]]),
                        !.bias = [i \in 1..Len(self.bias) |->
                                self.bias[i] + variables[2]]]]
          [] OTHER -> [err |-> "none", self |-> self]

\* The layer with the shapes __init__ derives for input_shape
\* (input_shape[-1] is weight.shape[1]).
Linear_init(cls, input_shape, weight, bias) ==
    IF input_shape[Len(input_shape)] # weight.shape[2] THEN NoInstance("ValueError")
    ELSE [err |-> "none", cls |-> cls, weight |-> weight, bias |-> bias,
          input_shape |-> input_shape,
          output_shape |-> PySlice(input_shape, 0, Len(input_shape) - 1)
                             \o <<weight.shape[1]>>]

\* np.atleast_2d(x), and x[np.newaxis] for a 1-d x.
np_atleast_2d(x) == IF Len(x.shape) = 1 THEN NewAxisAt(x, 0) ELSE x

RECURSIVE ProdSeq(_)
ProdSeq(s) == IF s = <<>> THEN 1 ELSE Head(s) * ProdSeq(Tail(s))

\* The kernel forward_<t>(x, weight, bias): y = W.x + b over the batch.
flinear_forward(x, weight, bias) ==
    LET oshape == <<x.shape[1], weight.shape[1]>>
    IN  Tensor(oshape,
               [idx \in Indices(oshape) |->
                   SumSeq([i \in 1..weight.shape[2] |->
                              weight.data[<<idx[2], i - 1>>] * x.data[<<idx[1], i - 1>>]])
                   + bias[idx[2] + 1]])

\* The kernel backward_<t>(dy, x, weight): dx = Wt.dy, dW = dy (x) xt summed
\* over the batch, db = the sum of dy over the batch.
flinear_backward(dy, x, weight) ==
    LET nb == x.shape[1]
    IN  [dx |-> Tensor(x.shape,
                   [idx \in Indices(x.shape) |->
                       SumSeq([o \in 1..weight.shape[1] |->
                                  dy.data[<<idx[1], o - 1>>]
                                      * weight.data[<<o - 1, idx[2]>>]])]),
         dweight |-> Tensor(weight.shape,
                   [idx \in Indices(weight.shape) |->
                       SumSeq([b \in 1..nb |->
                                  dy.data[<<b - 1, idx[1]>>] * x.data[<<b - 1, idx[2]>>]])]),
         dbias |-> [o \in 1..weight.shape[1] |->
                       SumSeq([b \in 1..nb |-> dy.data[<<b - 1, o - 1>>]])]]

Linear_forward(self, x) ==
    reshape_F(flinear_forward(np_atleast_2d(x), self.weight, self.bias),
              self.output_shape).val

\* backward with the default mask (1,1): the parameter gradient and dx.
Linear_backward(self, x, y, dy) ==
    LET g == flinear_backward(np_atleast_2d(dy), np_atleast_2d(x), self.weight)
    IN  [dvar |-> ravel_F(g.dweight) \o g.dbias,
         dx |-> reshape_F(g.dx, self.input_shape).val]

\* The quotients of Apdot.backward are kept exactly, as a numerator and a
\* denominator; a zero denominator is a non-finite entry (inf or nan).
Frac(num, den) == [num |-> num, den |-> den]

FracAdd(a, b) ==
    IF a.den = 0 \/ b.den = 0 THEN Frac(0, 0)
    ELSE Frac(a.num * b.den + b.num * a.den, a.den * b.den)

RECURSIVE FracSum(_)
FracSum(s) == IF s = <<>> THEN Frac(0, 1) ELSE FracAdd(Head(s), FracSum(Tail(s)))

\* np.prod(self.weight + x[:,np.newaxis,:], axis=2) * self.bias
Apdot_forward(self, x) ==
    LET x2 == np_atleast_2d(x)
        oshape == <<x2.shape[1], self.weight.shape[1]>>
    IN  reshape_F(
            Tensor(oshape,
                   [idx \in Indices(oshape) |->
                       ProdSeq([i \in 1..self.weight.shape[2] |->
                                   self.weight.data[<<idx[2], i - 1>>]
                                       + x2.data[<<idx[1], i - 1>>]])
                       * self.bias[idx[2] + 1]]),
            self.output_shape).val

\* pmat = (dy*y)[:,:,np.newaxis] / (self.weight + x[:,np.newaxis,:])
Apdot_pmat(self, x, y, dy, b, o, i) ==
    Frac(dy.data[<<b, o>>] * y.data[<<b, o>>],
         self.weight.data[<<o, i>>] + x.data[<<b, i>>])

\* Mutant of Apdot_backward: the weight gradient is flattened in row-major
\* order.
Apdot_backward_C(self, x, y, dy) ==
    LET x2 == np_atleast_2d(x)
        y2 == np_atleast_2d(y)
        dy2 == np_atleast_2d(dy)
        nb == x2.shape[1]
        dweight == Tensor(self.weight.shape,
                      [idx \in Indices(self.weight.shape) |->
                          FracSum([b \in 1..nb |->
                              Apdot_pmat(self, x2, y2, dy2, b - 1, idx[1], idx[2])])])
        dxt == Tensor(x2.shape,
                      [idx \in Indices(x2.shape) |->
                          FracSum([o \in 1..self.weight.shape[1] |->
                              Apdot_pmat(self, x2, y2, dy2, idx[1], o - 1, idx[2])])])
        dbias == [o \in 1..self.weight.shape[1] |->
                     FracSum([b \in 1..nb |->
                         Frac(dy2.data[<<b - 1, o - 1>>] * y2.data[<<b - 1, o - 1>>],
                              self.bias[o])])]
    IN  [dvar |-> ravel_C(dweight) \o dbias,
         dx |-> reshape_F(dxt, self.input_shape).val]

Apdot_backward(self, x, y, dy) ==
    LET x2 == np_atleast_2d(x)
        y2 == np_atleast_2d(y)
        dy2 == np_atleast_2d(dy)
        nb == x2.shape[1]
        dweight == Tensor(self.weight.shape,
                      [idx \in Indices(self.weight.shape) |->
                          FracSum([b \in 1..nb |->
                              Apdot_pmat(self, x2, y2, dy2, b - 1, idx[1], idx[2])])])
        dxt == Tensor(x2.shape,
                      [idx \in Indices(x2.shape) |->
                          FracSum([o \in 1..self.weight.shape[1] |->
                              Apdot_pmat(self, x2, y2, dy2, idx[1], o - 1, idx[2])])])
        dbias == [o \in 1..self.weight.shape[1] |->
                     FracSum([b \in 1..nb |->
                         Frac(dy2.data[<<b - 1, o - 1>>] * y2.data[<<b - 1, o - 1>>],
                              self.bias[o])])]
    IN  [dvar |-> ravel_F(dweight) \o dbias,
         dx |-> reshape_F(dxt, self.input_shape).val]

(***************************************************************************)
(* Arrays as objects.  The heap is a sequence of buffers (flat sequences   *)
(* of entries); an ndarray object is [buf, shape, strides, dtype]: entry   *)
(* idx lives at position Offset of buffer buf.  Two arrays share storage   *)
(* exactly when they have the same buf.                                    *)
(***************************************************************************)
FStrides(shape) == [k \in 1..Len(shape) |-> tuple_prod(SubSeq(shape, 1, k - 1))]

Offset(arr, idx) ==
    1 + SumSeq([k \in 1..Len(arr.shape) |-> idx[k] * arr.strides[k]])

\* The value of an array object: its shape and entries.
Read(h, arr) ==
    Tensor(arr.shape,
           [idx \in Indices(arr.shape) |-> h[arr.buf][Offset(arr, idx)]])

\* A fresh column-major array holding the tensor t: the heap and the object.
Alloc(h, t, dtype) ==
    [heap |-> Append(h, ravel_F(t)),
     arr |-> [buf |-> Len(h) + 1, shape |-> t.shape,
              strides |-> FStrides(t.shape), dtype |-> dtype]]

\* The heap after entry idx of arr is set to v.
Store(h, arr, idx, v) ==
    [h EXCEPT ![arr.buf] = [@ EXCEPT ![Offset(arr, idx)] = v]]

\* arr.flags.f_contiguous: extents of 1 do not count.
IsFContiguous(arr) ==
    \A k \in 1..Len(arr.shape) :
        arr.shape[k] = 1 \/ arr.strides[k] = FStrides(arr.shape)[k]

\* x.copy(order='F')
ndarray_copy(h, x) == Alloc(h, Read(h, x), x.dtype)

\* x.transpose(axes): always a view of x.
ndarray_transpose(h, x, axes) ==
    IF ~IsPermutation(axes, Len(x.shape)) THEN [err |-> "ValueError", heap |-> h]
    ELSE [err |-> "none", heap |-> h,
          arr |-> [buf |-> x.buf,
                   shape |-> [i \in 1..Len(axes) |-> x.shape[axes[i] + 1]],
                   strides |-> [i \in 1..Len(axes) |-> x.strides[axes[i] + 1]],
                   dtype |-> x.dtype]]

\* The strides a view of x with the new shape would need: the step of each
\* new axis in x's storage, following column-major order.
ViewStrides(x, newshape) ==
    [k \in 1..Len(newshape) |->
        IF newshape[k] = 1 THEN 0
        ELSE Offset(x, UnravelF(FStrides(newshape)[k], x.shape)) - 1]

\* Whether x.reshape(newshape, order='F') can be a view: the strided view
\* visits x's entries in column-major order.
CanView(x, newshape) ==
    LET v == [buf |-> x.buf, shape |-> newshape,
              strides |-> ViewStrides(x, newshape), dtype |-> x.dtype]
    IN  \A idx \in Indices(newshape) :
            Offset(v, idx) = Offset(x, UnravelF(LinF(idx, newshape), x.shape))

\* x.reshape(newshape, order='F'): a view when possible, else a copy.
ndarray_reshape(h, x, newshape) ==
    IF tuple_prod(newshape) # tuple_prod(x.shape)
    THEN [err |-> "ValueError", heap |-> h]
    ELSE IF CanView(x, newshape)
    THEN [err |-> "none", heap |-> h,
          arr |-> [buf |-> x.buf, shape |-> newshape,
                   strides |-> ViewStrides(x, newshape), dtype |-> x.dtype]]
    ELSE LET c == Alloc(h, ReshapeImpl(Read(h, x), newshape), x.dtype)
         IN  [err |-> "none", heap |-> c.heap, arr |-> c.arr]

\* np.asarray(x, dtype=dtype, order='F'): x itself when it already has the
\* dtype and is column-major, else a converted copy (the entries of the
\* model are small integers, which every dtype holds exactly).
np_asarray(h, x, dtype) ==
    IF x.dtype = dtype /\ IsFContiguous(x)
    THEN [err |-> "none", heap |-> h, arr |-> x]
    ELSE LET c == Alloc(h, Read(h, x), dtype)
         IN  [err |-> "none", heap |-> c.heap, arr |-> c.arr]

(***************************************************************************)
(* The process-wide random stream np.random.  Its state is a number;       *)
(* seeding sets it from the seed, every draw advances it.  keep_rate is    *)
(* 1/keep_inv, so x / keep_rate is x * keep_inv and a draw r (standing for *)
(* r/RngMod in [0,1)) is below keep_rate exactly when r * keep_inv <       *)
(* RngMod.                                                                 *)
(***************************************************************************)
RngMod == 8

RngMul == 5

RngInc == 1

\* Mutant of np_random_seed: the stream is left as it is.
np_random_noseed(state, seed) == state

\* np.random.seed(seed)
np_random_seed(state, seed) == seed % RngMod

RngStep(state) == (RngMul * state + RngInc) % RngMod

\* np.random.random(n): the n draws and the state after them.
RECURSIVE np_random_random(_, _)
np_random_random(state, n) ==
    IF n = 0 THEN [draws |-> <<>>, state |-> state]
    ELSE LET r == np_random_random(RngStep(state), n - 1)
         IN  [draws |-> <<RngStep(state)>> \o r.draws, state |-> r.state]

(***************************************************************************)
(* Runtime variables.  Layer.set_runtime_vars binds every name of          *)
(* tags['runtimes'] from var_dict and raises KeyError for a missing name.  *)
(* A var_dict of the model gives one name: [name, value], or no name.      *)
(***************************************************************************)
NoVars == [name |-> None]

Layer_set_runtime_vars(self, var_dict, name) ==
    IF var_dict.name # name THEN [err |-> "KeyError", self |-> self]
    ELSE [err |-> "none", self |-> [self EXCEPT ![name] = [val |-> var_dict.value]]]

(***************************************************************************)
(* DropOut.                                                                *)
(***************************************************************************)
DropOut_new(input_shape, keep_inv, axis, is_inplace) ==
    LET r == DropOut_init(input_shape, axis)
    IN  IF r.err # "none" THEN r
        ELSE [err |-> "none", cls |-> "DropOut", input_shape |-> input_shape,
              output_shape |-> input_shape, axis |-> r.axis,
              keep_inv |-> keep_inv, seed |-> NoneObj, mask |-> NoneObj,
              is_inplace |-> is_inplace]

DropOut_set_runtime_vars(self, var_dict, state) ==
    LET b == Layer_set_runtime_vars(self, var_dict, "seed")
    IN  IF b.err # "none" THEN [err |-> b.err, self |-> self, state |-> state]
        ELSE LET r == np_random_random(np_random_seed(state, b.self.seed.val),
                                       self.input_shape[self.axis + 1])
             IN  [err |-> "none",
                  self |-> [b.self EXCEPT !.mask =
                              [val |-> [i \in 1..Len(r.draws) |->
                                  r.draws[i] * self.keep_inv < RngMod]]],
                  state |-> r.state]

\* y[(slice(None),)*axis + (sel,)] /= keep_rate, sel a boolean array over
\* the axis: the heap after the selected entries are scaled.
RECURSIVE ScaleSelected(_, _, _, _, _, _)
ScaleSelected(h, y, axis, sel, keep_inv, todo) ==
    IF todo = {} THEN h
    ELSE LET idx == CHOOSE i \in todo : TRUE
             h1 == IF sel[idx[axis + 1] + 1]
                   THEN Store(h, y, idx, h[y.buf][Offset(y, idx)] * keep_inv)
                   ELSE h
         IN  ScaleSelected(h1, y, axis, sel, keep_inv, todo \ {idx})

\* y[(slice(None),)*axis + (sel,)] = 0
RECURSIVE ZeroSelected(_, _, _, _, _)
ZeroSelected(h, y, axis, sel, todo) ==
    IF todo = {} THEN h
    ELSE LET idx == CHOOSE i \in todo : TRUE
             h1 == IF sel[idx[axis + 1] + 1] THEN Store(h, y, idx, 0) ELSE h
         IN  ZeroSelected(h1, y, axis, sel, todo \ {idx})

\* y[(slice(None),)*axis + (None,)] /= keep_rate: None is np.newaxis, so
\* the whole of y is scaled through a view with one more axis.
RECURSIVE ScaleAll(_, _, _, _)
ScaleAll(h, y, keep_inv, todo) ==
    IF todo = {} THEN h
    ELSE LET idx == CHOOSE i \in todo : TRUE
         IN  ScaleAll(Store(h, y, idx, h[y.buf][Offset(y, idx)] * keep_inv),
                      y, keep_inv, todo \ {idx})

Negate(mask) == [i \in 1..Len(mask) |-> ~mask[i]]

\* The two masked assignments shared by forward and backward, on array y
\* with a bound mask.
DropOut_apply(h, self, y) ==
    ZeroSelected(
        ScaleSelected(h, y, self.axis, self.mask.val, self.keep_inv,
                      Indices(y.shape)),
        y, self.axis, Negate(self.mask.val), Indices(y.shape))

\* Mutant of DropOut_forward: the dropped entries are not zeroed.
DropOut_forward_NoZero(h, self, x) ==
    IF self.seed = NoneObj THEN [err |-> "AttributeError", heap |-> h]
    ELSE LET c == IF self.is_inplace THEN [heap |-> h, arr |-> x]
                  ELSE ndarray_copy(h, x)
         IN  [err |-> "none",
              heap |-> ScaleSelected(c.heap, c.arr, self.axis, self.mask.val,
                                     self.keep_inv, Indices(c.arr.shape)),
              arr |-> c.arr]

DropOut_forward(h, self, x) ==
    IF self.seed = NoneObj THEN [err |-> "AttributeError", heap |-> h]
    ELSE LET c == IF self.is_inplace THEN [heap |-> h, arr |-> x]
                  ELSE ndarray_copy(h, x)
         IN  [err |-> "none", heap |-> DropOut_apply(c.heap, self, c.arr),
              arr |-> c.arr]

\* Mutant of DropOut_backward: the gradient is computed on a copy of dy.
DropOut_backward_OnCopy(h, self, x, y, dy) ==
    IF self.mask = NoneObj
    THEN [err |-> "TypeError",
          heap |-> ScaleAll(h, dy, self.keep_inv, Indices(dy.shape))]
    ELSE LET c == ndarray_copy(h, dy)
         IN  [err |-> "none", heap |-> DropOut_apply(c.heap, self, c.arr),
              dvar |-> EMPTY_VAR, arr |-> c.arr]

\* backward has no check of the seed: with mask None the first statement
\* scales all of dy and ~None raises TypeError.
DropOut_backward(h, self, x, y, dy) ==
    IF self.mask = NoneObj
    THEN [err |-> "TypeError",
          heap |-> ScaleAll(h, dy, self.keep_inv, Indices(dy.shape))]
    ELSE [err |-> "none", heap |-> DropOut_apply(h, self, dy),
          dvar |-> EMPTY_VAR, arr |-> dy]

(***************************************************************************)
(* The loss operators.  The entries of a loss are real logarithms and      *)
(* exponentials; the model keeps the outcome of a call (the exception      *)
(* raised, or the shape of the array returned).  y_true is None or bound.  *)
(***************************************************************************)
SquareLoss_init(input_shape) ==
    Function_init("SquareLoss", input_shape, input_shape, None)

Loss_new(cls, input_shape, axis) ==
    LET r == CASE cls = "CrossEntropy" -> CrossEntropy_init(input_shape, axis)
               [] cls = "SoftMaxCrossEntropy" ->
                      SoftMaxCrossEntropy_init(input_shape, axis)
               [] cls = "SquareLoss" -> SquareLoss_init(input_shape)
    IN  IF r.err # "none" THEN r
        ELSE [err |-> "none", cls |-> cls, input_shape |-> r.input_shape,
              output_shape |-> r.output_shape, axis |-> r.axis, y_true |-> NoneObj]

\* -self.y_true with y_true None raises TypeError.
CrossEntropy_forward(self, xshape) ==
    IF self.y_true = NoneObj THEN [err |-> "TypeError"]
    ELSE [err |-> "none", shape |-> RemoveAt(xshape, self.axis)]

\* self.y_true / np.maximum(x, ZERO_REF) with y_true None raises TypeError.
CrossEntropy_backward(self, xshape) ==
    IF self.y_true = NoneObj THEN [err |-> "TypeError"]
    ELSE [err |-> "none", shape |-> xshape]

SoftMaxCrossEntropy_forward(self, xshape) ==
    IF self.y_true = NoneObj THEN [err |-> "AttributeError"]
    ELSE [err |-> "none", shape |-> RemoveAt(xshape, self.axis)]

\* y1 - self.y_true with y_true None raises TypeError.
SoftMaxCrossEntropy_backward(self, xshape) ==
    IF self.y_true = NoneObj THEN [err |-> "TypeError"]
    ELSE [err |-> "none", shape |-> xshape]

SquareLoss_forward(self, xshape) ==
    IF self.y_true = NoneObj THEN [err |-> "AttributeError"]
    ELSE [err |-> "none", shape |-> xshape]

\* xy[0] - xt with xt None raises TypeError.
SquareLoss_backward(self, xshape) ==
    IF self.y_true = NoneObj THEN [err |-> "TypeError"]
    ELSE [err |-> "none", shape |-> xshape]

Loss_forward(self, xshape) ==
    CASE self.cls = "CrossEntropy" -> CrossEntropy_forward(self, xshape)
      [] self.cls = "SoftMaxCrossEntropy" -> SoftMaxCrossEntropy_forward(self, xshape)
      [] self.cls = "SquareLoss" -> SquareLoss_forward(self, xshape)

Loss_backward(self, xshape) ==
    CASE self.cls = "CrossEntropy" -> CrossEntropy_backward(self, xshape)
      [] self.cls = "SoftMaxCrossEntropy" -> SoftMaxCrossEntropy_backward(self, xshape)
      [] self.cls = "SquareLoss" -> SquareLoss_backward(self, xshape)

(***************************************************************************)
(* The operators that pass arrays on: Cache, TypeCast, and Reshape and     *)
(* Transpose on array objects.  Each returns the heap after the call and   *)
(* the array object returned; Cache returns the instance after it too.     *)
(***************************************************************************)
Cache_init(input_shape) ==
    [err |-> "none", cls |-> "Cache", input_shape |-> input_shape,
     output_shape |-> input_shape, forward_list |-> <<>>, backward_list |-> <<>>]

Cache_forward(h, self, x) ==
    [err |-> "none", heap |-> h,
     self |-> [self EXCEPT !.forward_list = Append(@, x)], arr |-> x]

Cache_backward(h, self, x, y, dy) ==
    [err |-> "none", heap |-> h,
     self |-> [self EXCEPT !.backward_list = Append(@, dy)],
     dvar |-> EMPTY_VAR, arr |-> dy]

\* Mutant of Cache_clear: the backward history is kept.
Cache_clear_ForwardOnly(self) == [self EXCEPT !.forward_list = <<>>]

Cache_clear(self) == [self EXCEPT !.forward_list = <<>>, !.backward_list = <<>>]

TypeCast_init(input_shape, itype, otype) ==
    [err |-> "none", cls |-> "TypeCast", input_shape |-> input_shape,
     output_shape |-> input_shape, itype |-> itype, otype |-> otype]

TypeCast_forward(h, self, x) == np_asarray(h, x, self.otype)

TypeCast_backward(h, self, x, y, dy) == np_asarray(h, dy, self.itype)

\* Reshape.forward and backward on array objects.
Reshape_forward_obj(h, self, x) == ndarray_reshape(h, x, self.output_shape)

Reshape_backward_obj(h, self, x, y, dy) == ndarray_reshape(h, dy, self.input_shape)

\* Transpose.forward and backward on array objects.
Transpose_forward_obj(h, self, x) == ndarray_transpose(h, x, self.axes)

Transpose_backward_obj(h, self, x, y, dy) ==
    ndarray_transpose(h, dy, np_argsort(self.axes))

\* forward of the operator at the head of the pipeline.
Stage_forward(h, self, x) ==
    CASE self.cls = "Cache" -> Cache_forward(h, self, x)
      [] self.cls = "TypeCast" -> TypeCast_forward(h, self, x)
      [] self.cls = "Reshape" -> Reshape_forward_obj(h, self, x)
      [] self.cls = "Transpose" -> Transpose_forward_obj(h, self, x)
      [] self.cls = "DropOut" -> DropOut_forward(h, self, x)

\* backward of the operator at the head of the pipeline.
Stage_backward(h, self, x, y, dy) ==
    CASE self.cls = "Cache" -> Cache_backward(h, self, x, y, dy)
      [] self.cls = "TypeCast" -> TypeCast_backward(h, self, x, y, dy)
      [] self.cls = "Reshape" -> Reshape_backward_obj(h, self, x, y, dy)
      [] self.cls = "Transpose" -> Transpose_backward_obj(h, self, x, y, dy)
      [] self.cls = "DropOut" -> DropOut_backward(h, self, x, y, dy)

(***************************************************************************)
(* BatchNorm.  The statistics of x along the batch axis are kept exactly:  *)
(* the mean as the sums over the axis with the count n, the variance as    *)
(* n * sum(x^2) - sum(x)^2 with n^2.  The arrays forward and backward      *)
(* return are kept as the expressions the code evaluates.                  *)
(***************************************************************************)
BatchNorm_new(input_shape, eps, axis) ==
    IF axis # NoneObj /\ axis.val > Len(input_shape) - 1 THEN NoInstance("ValueError")
    ELSE IF axis # NoneObj /\ Len(input_shape) = 0 THEN NoInstance("ZeroDivisionError")
    ELSE [err |-> "none", cls |-> "BatchNorm", input_shape |-> input_shape,
          output_shape |-> input_shape, mean |-> NoneObj, variance |-> NoneObj,
          eps |-> eps,
          axis |-> IF axis = NoneObj THEN NoneObj
                   ELSE [val |-> axis.val % Len(input_shape)]]

Squares(x) == Tensor(x.shape, [idx \in Indices(x.shape) |-> x.data[idx] * x.data[idx]])

\* x.mean(axis=a, keepdims=True)
np_mean_keepdims(x, a) == [sum |-> np_sum(x, a), n |-> x.shape[a + 1]]

\* np.var(x, axis=a, keepdims=True)
np_var_keepdims(x, a) ==
    LET n == x.shape[a + 1]
        s1 == np_sum(x, a)
        s2 == np_sum(Squares(x), a)
    IN  [num |-> Tensor(s1.shape, [idx \in Indices(s1.shape) |->
                            n * s2.data[idx] - s1.data[idx] * s1.data[idx]]),
         den |-> n * n]

\* Mutant of BatchNorm_forward: the batch axis is dropped once the
\* statistics are taken, so that later calls reuse them.
BatchNorm_forward_FreezesAxis(self, x) ==
    IF self.axis # NoneObj
    THEN LET s == [self EXCEPT !.mean = [val |-> np_mean_keepdims(x, self.axis.val)],
                               !.variance = [val |-> np_var_keepdims(x, self.axis.val)],
                               !.axis = NoneObj]
         IN  [err |-> "none", self |-> s,
              val |-> [x |-> x, mean |-> s.mean.val, variance |-> s.variance.val,
                       eps |-> s.eps]]
    ELSE IF self.mean = NoneObj \/ self.variance = NoneObj
    THEN [err |-> "Exception", self |-> self]
    ELSE [err |-> "none", self |-> self,
          val |-> [x |-> x, mean |-> self.mean.val, variance |-> self.variance.val,
                   eps |-> self.eps]]

\* forward: (x - self.mean) / np.sqrt(self.variance + self.eps)
BatchNorm_forward(self, x) ==
    IF self.axis # NoneObj
    THEN LET s == [self EXCEPT !.mean = [val |-> np_mean_keepdims(x, self.axis.val)],
                               !.variance = [val |-> np_var_keepdims(x, self.axis.val)]]
         IN  [err |-> "none", self |-> s,
              val |-> [x |-> x, mean |-> s.mean.val, variance |-> s.variance.val,
                       eps |-> s.eps]]
    ELSE IF self.mean = NoneObj \/ self.variance = NoneObj
    THEN [err |-> "Exception", self |-> self]
    ELSE [err |-> "none", self |-> self,
          val |-> [x |-> x, mean |-> self.mean.val, variance |-> self.variance.val,
                   eps |-> self.eps]]

\* backward: dy / np.sqrt(self.variance + self.eps); None + eps raises
\* TypeError.
BatchNorm_backward(self, x, y, dy) ==
    IF self.variance = NoneObj THEN [err |-> "TypeError", self |-> self]
    ELSE [err |-> "none", self |-> self, dvar |-> EMPTY_VAR,
          val |-> [dy |-> dy, variance |-> self.variance.val, eps |-> self.eps]]

(***************************************************************************)
(* The types the operator factory returns.  attrs is the dict given to     *)
(* wrapfunc (a function from attribute names to None or a provided value), *)
(* shared by every instance of the type; field_names is the tuple of its   *)
(* keys, in the order of the dict, taken when the type is made.  f and g are kept by the keyword      *)
(* arguments they are called with: they raise TypeError unless these are   *)
(* the declared attributes.                                                *)
(***************************************************************************)
wrapfunc_type(keys, attrs) == [field_names |-> keys, attrs |-> attrs]

Dict_pop(dict, key) == [k \in (DOMAIN dict) \ {key} |-> dict[k]]

\* The loop of the generated __init__ over the fields left in todo: the
\* attributes set on the instance so far, and attrs after the pops.
RECURSIVE Gen_init_fields(_, _, _, _)
Gen_init_fields(attrs, kwargs, todo, fields) ==
    IF todo = <<>> THEN [err |-> "none", attrs |-> attrs, fields |-> fields]
    ELSE LET fieldname == Head(todo)
         IN  IF fieldname \in DOMAIN kwargs
             THEN Gen_init_fields(attrs, kwargs, Tail(todo),
                      [fields EXCEPT ![fieldname] = kwargs[fieldname]])
             ELSE IF fieldname \notin DOMAIN attrs
             THEN [err |-> "KeyError", attrs |-> attrs, fields |-> fields]
             ELSE IF attrs[fieldname] = NoneObj
             THEN [err |-> "KeyError", attrs |-> Dict_pop(attrs, fieldname),
                   fields |-> fields]
             ELSE Gen_init_fields(Dict_pop(attrs, fieldname), kwargs,
                      Tail(todo),
                      [fields EXCEPT ![fieldname] = attrs[fieldname]])

FieldSet(type) == {type.field_names[i] : i \in DOMAIN type.field_names}

\* newclass(input_shape, itype, **kwargs): the type after the call and the
\* instance, if one is made.
Gen_init(type, input_shape, kwargs) ==
    LET r == Gen_init_fields(type.attrs, kwargs, type.field_names,
                             [f \in FieldSet(type) |-> NoneObj])
        t == [type EXCEPT !.attrs = r.attrs]
    IN  IF r.err # "none" THEN [err |-> r.err, type |-> t]
        ELSE [err |-> "none", type |-> t,
              self |-> [err |-> "none", cls |-> "Generated",
                        input_shape |-> input_shape, output_shape |-> input_shape,
                        fields |-> r.fields]]

\* dict([(attr, getattr(self, attr)) for attr in attrs])
Gen_kwargs(type, self) == [attr \in DOMAIN type.attrs |-> self.fields[attr]]

\* forward: func(x, **kwargs)
Gen_forward(type, self, x) ==
    IF DOMAIN Gen_kwargs(type, self) # FieldSet(type)
    THEN [err |-> "TypeError", self |-> self]
    ELSE [err |-> "none", self |-> self,
          val |-> [f |-> "func", x |-> x, kwargs |-> Gen_kwargs(type, self)]]

\* backward: EMPTY_VAR, dfunc(xy, dy, **kwargs)
Gen_backward(type, self, x, y, dy) ==
    IF DOMAIN Gen_kwargs(type, self) # FieldSet(type)
    THEN [err |-> "TypeError", self |-> self]
    ELSE [err |-> "none", self |-> self, dvar |-> EMPTY_VAR,
          val |-> [f |-> "dfunc", x |-> x, y |-> y, dy |-> dy,
                   kwargs |-> Gen_kwargs(type, self)]]

(***************************************************************************)
(* The state before any call.                                              *)
(***************************************************************************)
IdleCtor == [called |-> FALSE, cls |-> None, input_shape |-> <<>>,
             axis_arg |-> 0, res |-> NoInstance(None)]

IdleFac == [called |-> FALSE, classname |-> <<>>, field_names |-> <<>>,
            res |-> [err |-> None]]

IdleTen == [op |-> None, pc |-> "idle"]

IdleLin == [cls |-> None]

IdleLinCall == [op |-> None]

IdleCall == [cls |-> None, op |-> None]

IdleStage == [cls |-> None]

IdleObs == [flog |-> <<>>, blog |-> <<>>, x |-> NoneObj]

IdleRuntime ==
    /\ heap = <<>>
    /\ cur = NoneObj
    /\ np_random = 0
    /\ drop = <<>>
    /\ loss = [cls |-> None]
    /\ call = IdleCall
    /\ ncalls = 0
    /\ stage = IdleStage
    /\ obs = IdleObs

(***************************************************************************)
(* Construction of an operator that takes an axis: the arguments are drawn *)
(* in the initial state, the constructor runs once.                        *)
(***************************************************************************)
InitCtor ==
    /\ \E cls \in AxisOps, shape \in Shapes \ {<<>>} :
         \E axis \in AxisArgs(shape) :
           ctor = [called |-> FALSE, cls |-> cls, input_shape |-> shape,
                   axis_arg |-> axis, res |-> NoInstance(None)]
    /\ fac = IdleFac
    /\ ten = IdleTen
    /\ lin = IdleLin
    /\ lin_call = IdleLinCall
    /\ IdleRuntime

ConstructAxisOp ==
    /\ ~ctor.called
    /\ ctor' = [ctor EXCEPT !.called = TRUE,
                            !.res = Construct(ctor.cls, ctor.input_shape,
                                              ctor.axis_arg)]
    /\ UNCHANGED <<fac, ten, lin, lin_call, rt>>

NextCtor == ConstructAxisOp

SpecCtor == InitCtor /\ [][NextCtor]_vars

\* The axis argument of the recorded construction is in [-rank, rank-1].
AxisInRange == /\ ctor.axis_arg >= 0 - Len(ctor.input_shape)
               /\ ctor.axis_arg <= Len(ctor.input_shape) - 1

\* C4: constructing an operator that takes an axis with an axis outside
\* [-rank, rank-1] fails with a shape error (ValueError), so no instance with
\* an out-of-range axis exists.
C4_OutOfRangeAxisRejected ==
    (ctor.called /\ ~AxisInRange) => ctor.res.err = "ValueError"

(***************************************************************************)
(* A call of the operator factory on names drawn in the initial state.     *)
(***************************************************************************)
InitFactory ==
    /\ ctor = IdleCtor
    /\ ten = IdleTen
    /\ lin = IdleLin
    /\ lin_call = IdleLinCall
    /\ IdleRuntime
    /\ \E classname \in Names, field_names \in FieldLists :
         fac = [called |-> FALSE, classname |-> classname,
                field_names |-> field_names, res |-> [err |-> None]]

CallWrapfunc ==
    /\ ~fac.called
    /\ fac' = [fac EXCEPT !.called = TRUE,
                          !.res = wrapfunc(fac.classname, fac.field_names)]
    /\ UNCHANGED <<ctor, ten, lin, lin_call, rt>>

NextFactory == CallWrapfunc

SpecFactory == InitFactory /\ [][NextFactory]_vars

\* A name that breaks the character rules the claim states.
BadChars(name) ==
    \/ \E i \in 1..Len(name) : name[i] \notin {"a", "1", "_"}
    \/ (Len(name) > 0 /\ name[1] = "1")

\* The combinations the claim says are rejected.
Malformed(classname, field_names) ==
    \/ BadChars(classname)
    \/ \E i \in 1..Len(field_names) :
          \/ BadChars(field_names[i])
          \/ (Len(field_names[i]) > 0 /\ field_names[i][1] = "_")
          \/ \E j \in 1..Len(field_names) :
                j # i /\ field_names[j] = field_names[i]

\* C6: wrapfunc raises ValueError whenever a name is malformed (bad
\* character, leading digit, attribute with a leading underscore, repeated
\* attribute) and returns a type for every other combination of names.
C6_FactoryValidatesNames ==
    fac.called =>
        IF Malformed(fac.classname, fac.field_names)
        THEN fac.res.err = "ValueError"
        ELSE fac.res.err = "none"

(***************************************************************************)
(* Sum, Reshape and Transpose: the constructor arguments and the arrays    *)
(* are drawn in the initial state; the instance is constructed, forward    *)
(* runs on x, and backward runs on ((x, y), dy).  For Reshape and          *)
(* Transpose dy is the output of forward.                                  *)
(***************************************************************************)
OneHot(shape, j) ==
    Tensor(shape, [idx \in Indices(shape) |-> IF idx = j THEN 1 ELSE 0])

Label(shape) ==
    Tensor(shape, [idx \in Indices(shape) |-> LinC(idx, shape) + 1])

Ones(shape) == Tensor(shape, [idx \in Indices(shape) |-> 1])

TensorsOf(shape) ==
    {OneHot(shape, j) : j \in Indices(shape)} \cup {Label(shape), Ones(shape)}

\* The shapes of the model and those of the documented examples.
TShapes == (Shapes \ {<<>>}) \cup {<<2, 3>>, <<4>>}

AxesPerms(n) == {p \in [1..n -> 0..(n - 1)] : IsPermutation(p, n)}

InitTensor ==
    /\ ctor = IdleCtor
    /\ fac = IdleFac
    /\ lin = IdleLin
    /\ lin_call = IdleLinCall
    /\ IdleRuntime
    /\ \E shape \in TShapes :
           \/ \E x \in TensorsOf(shape) :
                \E axis \in (0 - Len(shape) - 1) .. Len(shape) :
                  \E gen \in {"Label", "Ones"} :
                    ten = [op |-> "Sum", pc |-> "args", input_shape |-> shape,
                           arg |-> axis, x |-> x, dy |-> gen]
           \/ \E x \in {Label(shape), Ones(shape)} :
                \E output_shape \in TShapes :
                  ten = [op |-> "Reshape", pc |-> "args", input_shape |-> shape,
                         arg |-> output_shape, x |-> x, dy |-> "y"]
           \/ \E x \in {Label(shape), Ones(shape)} :
                \E n \in 1..MaxRank :
                  \E axes \in AxesPerms(n) :
                    ten = [op |-> "Transpose", pc |-> "args",
                           input_shape |-> shape, arg |-> axes, x |-> x,
                           dy |-> "y"]

TensorInit(op, input_shape, arg) ==
    CASE op = "Sum" -> Sum_init(input_shape, arg)
      [] op = "Reshape" -> Reshape_init(input_shape, arg)
      [] op = "Transpose" -> Transpose_init(input_shape, arg)

TensorConstruct ==
    /\ ten.pc = "args"
    /\ LET inst == TensorInit(ten.op, ten.input_shape, ten.arg)
       IN  ten' = [op |-> ten.op, pc |-> IF inst.err = "none" THEN "new" ELSE "raised",
                   arg |-> ten.arg, self |-> inst, x |-> ten.x, dy |-> ten.dy]
    /\ UNCHANGED <<ctor, fac, lin, lin_call, rt>>

TensorForwardResult(self, x) ==
    CASE self.cls = "Sum" -> [err |-> "none", val |-> Sum_forward(self, x)]
      [] self.cls = "Reshape" -> Reshape_forward(self, x)
      [] self.cls = "Transpose" -> Transpose_forward(self, x)

TensorForward ==
    /\ ten.pc = "new"
    /\ LET r == TensorForwardResult(ten.self, ten.x)
       IN  ten' = IF r.err = "none"
                  THEN [op |-> ten.op, pc |-> "fwd", arg |-> ten.arg,
                        self |-> ten.self, x |-> ten.x, y |-> r.val,
                        dy |-> CASE ten.dy = "y" -> r.val
                                 [] ten.dy = "Label" -> Label(ten.self.output_shape)
                                 [] ten.dy = "Ones" -> Ones(ten.self.output_shape)]
                  ELSE [op |-> ten.op, pc |-> "raised", arg |-> ten.arg,
                        self |-> ten.self, x |-> ten.x, dy |-> ten.dy]
    /\ UNCHANGED <<ctor, fac, lin, lin_call, rt>>

TensorBackwardResult(self, x, y, dy) ==
    CASE self.cls = "Sum" -> [err |-> "none", val |-> Sum_backward(self, x, y, dy)]
      [] self.cls = "Reshape" -> Reshape_backward(self, x, y, dy)
      [] self.cls = "Transpose" -> Transpose_backward(self, x, y, dy)

TensorBackward ==
    /\ ten.pc = "fwd"
    /\ LET r == TensorBackwardResult(ten.self, ten.x, ten.y, ten.dy)
       IN  ten' = IF r.err = "none"
                  THEN [op |-> ten.op, pc |-> "bwd", arg |-> ten.arg,
                        self |-> ten.self, x |-> ten.x, y |-> ten.y,
                        dy |-> ten.dy, dvar |-> r.val[1], dx |-> r.val[2]]
                  ELSE [op |-> ten.op, pc |-> "raised", arg |-> ten.arg,
                        self |-> ten.self, x |-> ten.x, dy |-> ten.dy]
    /\ UNCHANGED <<ctor, fac, lin, lin_call, rt>>

NextTensor == TensorConstruct \/ TensorForward \/ TensorBackward

SpecTensor == InitTensor /\ [][NextTensor]_vars

\* The axis a reduced by a Sum given the axis argument arg (a = arg mod rank).
ReducedAxis(arg, rank) == IF arg < 0 THEN arg + rank ELSE arg

\* s without the entry at 0-based position a.
Without(s, a) ==
    [k \in 1..(Len(s) - 1) |-> IF k <= a THEN s[k] ELSE s[k + 1]]

\* The total of x over axis a at the output index idx.
RECURSIVE AxisTotal(_, _, _, _)
AxisTotal(x, idx, a, n) ==
    IF n = 0 THEN 0
    ELSE AxisTotal(x, idx, a, n - 1)
         + x.data[[m \in 1..Len(x.shape) |->
                     IF m <= a THEN idx[m]
                     ELSE IF m = a + 1 THEN n - 1 ELSE idx[m - 1]]]

\* C9: a Sum constructed with an axis in [-rank, rank-1] has output_shape =
\* input_shape without entry (axis mod rank); forward(x) has that shape and
\* holds the sums of x along the axis; backward returns an empty parameter
\* gradient and a dx of shape input_shape whose every entry is the dy entry
\* at the same index with the reduced axis removed (dy a scalar included).
C9_SumForwardBackward ==
    (/\ ten.op = "Sum"
     /\ ten.pc # "args"
     /\ ten.arg >= 0 - Len(ten.x.shape)
     /\ ten.arg <= Len(ten.x.shape) - 1) =>
        LET a == ReducedAxis(ten.arg, Len(ten.x.shape))
            ishape == ten.x.shape
            oshape == Without(ishape, a)
        IN  /\ ten.pc # "raised"
            /\ ten.self.input_shape = ishape
            /\ ten.self.output_shape = oshape
            /\ ten.pc \in {"fwd", "bwd"} =>
                  /\ ten.y.shape = oshape
                  /\ DOMAIN ten.y.data = Indices(oshape)
                  /\ \A idx \in Indices(oshape) :
                        ten.y.data[idx] = AxisTotal(ten.x, idx, a, ishape[a + 1])
            /\ ten.pc = "bwd" =>
                  /\ ten.dvar = EMPTY_VAR
                  /\ ten.dx.shape = ishape
                  /\ DOMAIN ten.dx.data = Indices(ishape)
                  /\ \A idx \in Indices(ishape) :
                        ten.dx.data[idx] = ten.dy.data[Without(idx, a)]

\* Witness of C9: Sum on shape (2,3), axis 0, x = [[1,2,3],[4,5,6]] gave
\* y = [5,7,9], and backward with dy = [1,1,1] gave dx all ones.
C9_Witness ==
    /\ ten.op = "Sum"
    /\ ten.pc = "bwd"
    /\ ten.arg = 0
    /\ ten.x = Label(<<2, 3>>)
    /\ ten.x.data[<<1, 2>>] = 6
    /\ ten.y.data[<<0>>] = 5 /\ ten.y.data[<<1>>] = 7 /\ ten.y.data[<<2>>] = 9
    /\ ten.dy = Ones(<<3>>)
    /\ ten.dx = Ones(<<2, 3>>)

\* The column-major position of idx in an array of the given shape.
ColMajorPos(idx, shape) ==
    SumSeq([k \in 1..Len(shape) |-> idx[k] * tuple_prod(SubSeq(shape, 1, k - 1))])

\* C10: Reshape.forward keeps every element at its column-major position
\* and backward((x,y), forward(x)) = x; a Transpose constructed with a
\* permutation of the input axes has output_shape[i] = input_shape[axes[i]],
\* forward moves axis axes[i] to position i, and backward((x,y), forward(x))
\* = x with shape input_shape.
C10_StructuralInverse ==
    /\ (/\ ten.op = "Reshape"
        /\ ten.pc # "args"
        /\ tuple_prod(ten.arg) = tuple_prod(ten.x.shape)) =>
           /\ ten.pc # "raised"
           /\ ten.pc \in {"fwd", "bwd"} =>
                 /\ ten.y.shape = ten.arg
                 /\ \A i \in Indices(ten.x.shape), o \in Indices(ten.arg) :
                       ColMajorPos(i, ten.x.shape) = ColMajorPos(o, ten.arg)
                           => ten.y.data[o] = ten.x.data[i]
           /\ ten.pc = "bwd" => (ten.dx = ten.x /\ ten.dvar = EMPTY_VAR)
    /\ (/\ ten.op = "Transpose"
        /\ ten.pc # "args"
        /\ IsPermutation(ten.arg, Len(ten.x.shape))) =>
           /\ ten.pc # "raised"
           /\ \A i \in 1..Len(ten.arg) :
                 ten.self.output_shape[i] = ten.x.shape[ten.arg[i] + 1]
           /\ ten.pc \in {"fwd", "bwd"} =>
                 /\ ten.y.shape = ten.self.output_shape
                 /\ \A o \in Indices(ten.y.shape), i \in Indices(ten.x.shape) :
                       (\A k \in 1..Len(ten.arg) : o[k] = i[ten.arg[k] + 1])
                           => ten.y.data[o] = ten.x.data[i]
           /\ ten.pc = "bwd" =>
                 /\ ten.dx = ten.x
                 /\ ten.dx.shape = ten.self.input_shape
                 /\ ten.dvar = EMPTY_VAR

\* Witness of C10: a Transpose with the cyclic permutation (1,2,0), which is
\* not its own inverse, ran forward and backward on a (1,2,2) array with
\* pairwise distinct entries.
C10_Witness ==
    /\ ten.op = "Transpose"
    /\ ten.pc = "bwd"
    /\ ten.arg = <<1, 2, 0>>
    /\ ten.x = Label(<<1, 2, 2>>)
    /\ ten.y.shape = <<2, 2, 1>>
    /\ ten.dx = ten.x

\* The documented Reshape example: (4,) -> (2,2) on [1,2,3,4] gives
\* [[1,3],[2,4]] and backward returns [1,2,3,4].
C10_ReshapeExample ==
    /\ ten.op = "Reshape"
    /\ ten.pc = "bwd"
    /\ ten.x = Label(<<4>>)
    /\ ten.arg = <<2, 2>>
    /\ ten.y.data[<<0, 0>>] = 1 /\ ten.y.data[<<0, 1>>] = 3
    /\ ten.y.data[<<1, 0>>] = 2 /\ ten.y.data[<<1, 1>>] = 4
    /\ ten.dx = Label(<<4>>)

(***************************************************************************)
(* A Linear or Apdot layer: class, shape and parameters are drawn in the   *)
(* initial state; get_variables and set_variables are then called in any   *)
(* order.                                                                  *)
(***************************************************************************)
\* Parameter vectors of length n given to set_variables.
VecsOf(n) == {[i \in 1..n |-> i], [i \in 1..n |-> n - i],
              [i \in 1..n |-> 1], [i \in 1..n |-> 0]}

InitLinear ==
    /\ ctor = IdleCtor
    /\ fac = IdleFac
    /\ ten = IdleTen
    /\ lin_call = IdleLinCall
    /\ IdleRuntime
    /\ \E cls \in {"Linear", "Apdot"}, fout \in 1..MaxDim, fin \in 1..MaxDim :
         \E weight \in TensorsOf(<<fout, fin>>), bias \in VecsOf(fout) :
           lin = [cls |-> cls, weight |-> weight, bias |-> bias]

GetVariables ==
    /\ lin_call' = [op |-> "get", ret |-> Linear_get_variables(lin)]
    /\ UNCHANGED <<ctor, fac, ten, lin, rt>>

SetVariables ==
    \E v \in VecsOf(Linear_num_variables(lin)), mode \in {"set", "add"} :
      LET r == Linear_set_variables(lin, v, mode)
      IN  /\ \A idx \in Indices(r.self.weight.shape) :
                r.self.weight.data[idx] <= MaxVal
          /\ \A i \in 1..Len(r.self.bias) : r.self.bias[i] <= MaxVal
          /\ lin' = r.self
          /\ lin_call' = [op |-> mode, arg |-> v, before |-> lin, err |-> r.err]
          /\ UNCHANGED <<ctor, fac, ten, rt>>

\* set_variables(get_variables()) in the default mode.
RoundTrip ==
    LET v == Linear_get_variables(lin)
        r == Linear_set_variables(lin, v, "set")
    IN  /\ lin' = r.self
        /\ lin_call' = [op |-> "roundtrip", arg |-> v, before |-> lin,
                        err |-> r.err]
        /\ UNCHANGED <<ctor, fac, ten, rt>>

\* The input shapes a layer with the weight of lin can be made for: a
\* batch of inputs or one input.
LinInputShapes == {<<MaxDim, lin.weight.shape[2]>>, <<lin.weight.shape[2]>>}

\* y = forward(x), then backward((x, y), dy), of the layer made for the
\* shape of x with the parameters of lin.
LinBackward ==
    \E input_shape \in LinInputShapes :
      LET self == Linear_init(lin.cls, input_shape, lin.weight, lin.bias)
          x == Label(input_shape)
      IN  \E dy \in {Label(self.output_shape)} :
            LET y == IF lin.cls = "Linear" THEN Linear_forward(self, x)
                     ELSE Apdot_forward(self, x)
                r == IF lin.cls = "Linear" THEN Linear_backward(self, x, y, dy)
                     ELSE Apdot_backward(self, x, y, dy)
            IN  /\ lin_call' = [op |-> "backward", x |-> x, dy |-> dy,
                                dvar |-> r.dvar, dx |-> r.dx]
                /\ UNCHANGED <<ctor, fac, ten, lin, rt>>

NextLinear == GetVariables \/ SetVariables \/ RoundTrip \/ LinBackward

SpecLinear == InitLinear /\ [][NextLinear]_vars

\* C2: set_variables(get_variables()) in overwrite mode leaves every weight
\* entry and every bias entry as it was, and get_variables() returns the
\* same vector before and after.
C2_RoundTrip ==
    lin_call.op = "roundtrip" =>
        /\ lin_call.err = "none"
        /\ lin.weight = lin_call.before.weight
        /\ lin.bias = lin_call.before.bias
        /\ Linear_get_variables(lin) = lin_call.arg

\* Witness of C2: a round trip on a 2x2 weight with pairwise distinct
\* entries [[1,2],[3,4]], whose flattening is [1,3,2,4] followed by the bias.
C2_Witness ==
    /\ lin_call.op = "roundtrip"
    /\ lin.weight = Label(<<2, 2>>)
    /\ lin.bias = <<1, 2>>
    /\ lin_call.arg = <<1, 3, 2, 4, 1, 2>>

\* The sum over the output of dy * forward(x) for the layer made for the
\* shape of x with the parameters of self.
LinLoss(self, x, dy) ==
    LET layer == Linear_init(self.cls, x.shape, self.weight, self.bias)
        y == IF self.cls = "Linear" THEN Linear_forward(layer, x)
             ELSE Apdot_forward(layer, x)
    IN  SumSeq(ravel_F(Tensor(y.shape,
                   [idx \in Indices(y.shape) |-> dy.data[idx] * y.data[idx]])))

\* The change of LinLoss when entry k of get_variables() is raised by one
\* (with set_variables in overwrite mode).  The output of Linear and of
\* Apdot is affine in each single parameter, so this is the derivative with
\* respect to that entry.
LinDiff(self, k, x, dy) ==
    LET v == Linear_get_variables(self)
        moved == Linear_set_variables(self, [v EXCEPT ![k] = @ + 1], "set").self
    IN  LinLoss(moved, x, dy) - LinLoss(self, x, dy)

C14_LinearWitness ==
    /\ lin.cls = "Linear"
    /\ lin_call.op = "backward"
    /\ lin.weight = Label(<<2, 2>>)
    /\ lin_call.x = Label(<<2>>)
    /\ lin_call.dy = Label(<<2>>)
    /\ lin_call.dvar = <<1, 2, 2, 4, 1, 2>>

\* C15: set_variables(v, mode='add') leaves get_variables() equal to the
\* previous get_variables() plus v entry by entry; in overwrite mode
\* get_variables() afterwards equals v.
C15_AdditiveAccumulation ==
    /\ lin_call.op = "add" =>
          /\ lin_call.err = "none"
          /\ Linear_get_variables(lin) =
                 [k \in 1..Len(lin_call.arg) |->
                     Linear_get_variables(lin_call.before)[k] + lin_call.arg[k]]
    /\ lin_call.op = "set" =>
          /\ lin_call.err = "none"
          /\ Linear_get_variables(lin) = lin_call.arg

(***************************************************************************)
(* The operators with runtime variables.  Either two DropOut instances or  *)
(* one loss instance are constructed for one input shape; the caller       *)
(* allocates an array and calls set_runtime_vars, forward and backward in  *)
(* any order.  backward reads only dy of its arguments, which is the       *)
(* current array.  The second DropOut instance is only bound: it draws its *)
(* masks from the random stream the first one uses.                        *)
(***************************************************************************)
RtShapes == {<<MaxDim>>, <<1, MaxDim>>, <<MaxDim, MaxDim>>}

Init ==
    /\ ctor = IdleCtor
    /\ fac = IdleFac
    /\ ten = IdleTen
    /\ lin = IdleLin
    /\ lin_call = IdleLinCall
    /\ heap = <<>>
    /\ cur = NoneObj
    /\ call = IdleCall
    /\ ncalls = 0
    /\ stage = IdleStage
    /\ obs = IdleObs
    /\ \E shape \in RtShapes :
         \/ /\ np_random \in 0..(RngMod - 1)
            /\ \E a1 \in 0..(Len(shape) - 1), k \in 1..MaxKeepInv, ip \in BOOLEAN :
                 drop = <<DropOut_new(shape, k, a1, ip),
                          DropOut_new(shape, MaxKeepInv, -1, ~ip)>>
            /\ loss = [cls |-> None]
         \/ /\ np_random = 0
            /\ drop = <<>>
            /\ \E cls \in {"CrossEntropy", "SoftMaxCrossEntropy", "SquareLoss"},
                  axis \in {0, -1} :
                 loss = Loss_new(cls, shape, axis)

\* The input shape of the operators constructed.
RtShape == IF drop # <<>> THEN drop[1].input_shape ELSE loss.input_shape

NewArray ==
    /\ heap = <<>>
    /\ \E gen \in {"Label", "Ones"} :
         LET t == IF gen = "Label" THEN Label(RtShape)
                  ELSE Ones(RtShape)
             c == Alloc(heap, t, "float64")
         IN  /\ heap' = c.heap
             /\ cur' = c.arr
    /\ call' = [cls |-> None, op |-> "new"]
    /\ UNCHANGED <<ctor, fac, ten, lin, lin_call, stage, obs, np_random, drop, loss, ncalls>>

SeedDicts == {NoVars} \cup {[name |-> "seed", value |-> sd] : sd \in 0..MaxSeed}

DropOutSetRuntimeVars ==
    \E i \in DOMAIN drop, var_dict \in SeedDicts :
      LET r == DropOut_set_runtime_vars(drop[i], var_dict, np_random)
      IN  /\ drop' = [drop EXCEPT ![i] = r.self]
          /\ np_random' = r.state
          /\ call' = [cls |-> "DropOut", obj |-> i, op |-> "set_runtime_vars",
                      err |-> r.err]
          /\ UNCHANGED <<ctor, fac, ten, lin, lin_call, stage, obs, heap, cur, loss, ncalls>>

DropOutForward ==
    \E i \in DOMAIN drop \cap {1} :
      LET r == DropOut_forward(heap, drop[i], cur)
      IN  /\ cur # NoneObj
          /\ ncalls < MaxCalls
          /\ heap' = r.heap
          /\ cur' = IF r.err = "none" THEN r.arr ELSE cur
          /\ call' = [cls |-> "DropOut", obj |-> i, op |-> "forward",
                      bound |-> drop[i].seed # NoneObj,
                      err |-> r.err, arg |-> cur, argval |-> Read(heap, cur),
                      ret |-> IF r.err = "none" THEN r.arr ELSE NoneObj]
          /\ ncalls' = ncalls + 1
          /\ UNCHANGED <<ctor, fac, ten, lin, lin_call, stage, obs, np_random, drop, loss>>

DropOutBackward ==
    \E i \in DOMAIN drop \cap {1} :
      LET r == DropOut_backward(heap, drop[i], cur, cur, cur)
      IN  /\ cur # NoneObj
          /\ ncalls < MaxCalls
          /\ heap' = r.heap
          /\ cur' = IF r.err = "none" THEN r.arr ELSE cur
          /\ call' = [cls |-> "DropOut", obj |-> i, op |-> "backward",
                      bound |-> drop[i].seed # NoneObj,
                      err |-> r.err, arg |-> cur, argval |-> Read(heap, cur),
                      ret |-> IF r.err = "none" THEN r.arr ELSE NoneObj]
          /\ ncalls' = ncalls + 1
          /\ UNCHANGED <<ctor, fac, ten, lin, lin_call, stage, obs, np_random, drop, loss>>

LabelDicts == {NoVars, [name |-> "y_true", value |-> "labels"]}

LossSetRuntimeVars ==
    \E var_dict \in LabelDicts :
      LET r == Layer_set_runtime_vars(loss, var_dict, "y_true")
      IN  /\ loss.cls # None
          /\ loss' = r.self
          /\ call' = [cls |-> loss.cls, op |-> "set_runtime_vars", err |-> r.err]
          /\ UNCHANGED <<ctor, fac, ten, lin, lin_call, stage, obs, heap, cur, np_random,
                         drop, ncalls>>

LossForward ==
    /\ loss.cls # None
    /\ cur # NoneObj
    /\ ncalls < MaxCalls
    /\ LET r == Loss_forward(loss, cur.shape)
       IN  call' = [cls |-> loss.cls, op |-> "forward",
                    bound |-> loss.y_true # NoneObj,
                    err |-> r.err, arg |-> cur, argval |-> Read(heap, cur),
                    ret |-> IF r.err = "none" THEN [val |-> r.shape] ELSE NoneObj]
    /\ ncalls' = ncalls + 1
    /\ UNCHANGED <<ctor, fac, ten, lin, lin_call, stage, obs, heap, cur, np_random, drop, loss>>

LossBackward ==
    /\ loss.cls # None
    /\ cur # NoneObj
    /\ ncalls < MaxCalls
    /\ LET r == Loss_backward(loss, cur.shape)
       IN  call' = [cls |-> loss.cls, op |-> "backward",
                    bound |-> loss.y_true # NoneObj,
                    err |-> r.err, arg |-> cur, argval |-> Read(heap, cur),
                    ret |-> IF r.err = "none" THEN [val |-> r.shape] ELSE NoneObj]
    /\ ncalls' = ncalls + 1
    /\ UNCHANGED <<ctor, fac, ten, lin, lin_call, stage, obs, heap, cur, np_random, drop, loss>>

Next ==
    \/ NewArray
    \/ DropOutSetRuntimeVars
    \/ DropOutForward
    \/ DropOutBackward
    \/ LossSetRuntimeVars
    \/ LossForward
    \/ LossBackward

Spec == Init /\ [][Next]_vars

\* C1: every forward and every backward call on an operator whose runtime
\* variable (seed, y_true) is not bound yet is rejected with the
\* configuration error (the AttributeError the operators raise for a
\* missing runtime variable) and returns nothing.
C1_UnboundCallRejected ==
    (call.op \in {"forward", "backward"} /\ ~call.bound) =>
        /\ call.err = "AttributeError"
        /\ call.ret = NoneObj

\* The value of the array a DropOut call was given, masked and scaled:
\* x / keep_rate where the mask is true along the axis, zero elsewhere.
Masked(x, mask, axis, keep_inv) ==
    Tensor(x.shape,
           [idx \in Indices(x.shape) |->
               IF mask[idx[axis + 1] + 1] THEN x.data[idx] * keep_inv ELSE 0])

\* C7: once a seed is bound, forward returns x masked and scaled (zero where
\* the bound mask is false along the axis, x / keep_rate where it is true),
\* backward returns dy masked and scaled the same way, and the mask has one
\* entry per position of the configured axis of input_shape.
C7_MaskAndScale ==
    (call.cls = "DropOut" /\ call.op \in {"forward", "backward"} /\ call.bound) =>
        LET self == drop[call.obj]
        IN  /\ call.err = "none"
            /\ self.mask # NoneObj
            /\ Len(self.mask.val) = self.input_shape[self.axis + 1]
            /\ Read(heap, call.ret) =
                   Masked(call.argval, self.mask.val, self.axis, self.keep_inv)

\* Witness of C7: a forward call on [[1,2],[3,4]] with keep_rate 1/2 and a
\* mask that keeps the first position of axis 0 and drops the second.
C7_Witness ==
    /\ call.cls = "DropOut"
    /\ call.op = "forward"
    /\ call.bound
    /\ call.argval = Label(<<2, 2>>)
    /\ drop[call.obj].axis = 0
    /\ drop[call.obj].keep_inv = 2
    /\ drop[call.obj].mask = [val |-> <<TRUE, FALSE>>]
    /\ Read(heap, call.ret) =
           Tensor(<<2, 2>>, [idx \in Indices(<<2, 2>>) |->
                               IF idx = <<0, 0>> THEN 2
                               ELSE IF idx = <<0, 1>> THEN 4 ELSE 0])

\* Witness of C7 for backward: dy all ones, a mask that drops a position.
C7_BackwardWitness ==
    /\ call.cls = "DropOut"
    /\ call.op = "backward"
    /\ call.bound
    /\ call.argval = Ones(<<1, 2>>)
    /\ drop[call.obj].axis = 1
    /\ drop[call.obj].mask = [val |-> <<TRUE, FALSE>>]

\* The mask a stream seeded with seed draws for an axis of the given extent.
SeedMask(seed, extent, keep_inv) ==
    LET r == np_random_random(np_random_seed(0, seed), extent)
    IN  [i \in 1..extent |-> r.draws[i] * keep_inv < RngMod]

SameDraw(a, b) ==
    /\ a.seed = b.seed
    /\ a.input_shape[a.axis + 1] = b.input_shape[b.axis + 1]
    /\ a.keep_inv = b.keep_inv

ReshapeTargets(shape) ==
    {o \in RtShapes \cup {<<MaxDim, 1>>, <<MaxDim * MaxDim>>} :
        tuple_prod(o) = tuple_prod(shape)}

Stages(shape) ==
    {Cache_init(shape)}
    \cup {TypeCast_init(shape, "float64", otype) : otype \in {"float64", "complex128"}}
    \cup {Reshape_init(shape, o) : o \in ReshapeTargets(shape)}
    \cup {Transpose_init(shape, axes) : axes \in AxesPerms(Len(shape))}
    \cup {DropOut_new(shape, MaxKeepInv, a, FALSE) : a \in 0..(Len(shape) - 1)}

InitPipe ==
    /\ ctor = IdleCtor
    /\ fac = IdleFac
    /\ ten = IdleTen
    /\ lin = IdleLin
    /\ lin_call = IdleLinCall
    /\ heap = <<>>
    /\ cur = NoneObj
    /\ np_random = 0
    /\ loss = [cls |-> None]
    /\ call = IdleCall
    /\ ncalls = 0
    /\ obs = IdleObs
    /\ \E shape \in RtShapes :
         /\ stage \in Stages(shape)
         /\ drop = <<DropOut_new(stage.output_shape, MaxKeepInv, 0, TRUE)>>

PipeNewArray ==
    /\ Len(heap) < MaxArrays
    /\ LET c == Alloc(heap, Label(stage.input_shape), "float64")
       IN  /\ heap' = c.heap
           /\ cur' = c.arr
    /\ call' = [cls |-> None, op |-> "new"]
    /\ UNCHANGED <<ctor, fac, ten, lin, lin_call, np_random, drop, loss, ncalls,
                   stage, obs>>

\* set_runtime_vars of the pipeline, called once: every DropOut of it is
\* bound, the first operator before the in-place stage.
PipeSetRuntimeVars ==
    \E sd \in 0..MaxSeed :
      LET var_dict == [name |-> "seed", value |-> sd]
          r1 == IF stage.cls = "DropOut"
                THEN DropOut_set_runtime_vars(stage, var_dict, np_random)
                ELSE [err |-> "none", self |-> stage, state |-> np_random]
          r2 == DropOut_set_runtime_vars(drop[1], var_dict, r1.state)
      IN  /\ drop[1].seed = NoneObj
          /\ stage' = r1.self
          /\ drop' = <<r2.self>>
          /\ np_random' = r2.state
          /\ call' = [cls |-> None, op |-> "set_runtime_vars", err |-> r2.err]
          /\ UNCHANGED <<ctor, fac, ten, lin, lin_call, heap, cur, loss, ncalls, obs>>

StageForward ==
    /\ cur # NoneObj
    /\ cur.shape = stage.input_shape
    /\ ncalls < MaxSteps
    /\ LET r == Stage_forward(heap, stage, cur)
       IN  /\ heap' = r.heap
           /\ cur' = IF r.err = "none" THEN r.arr ELSE cur
           /\ stage' = IF stage.cls = "Cache" THEN r.self ELSE stage
           /\ call' = [cls |-> stage.cls, op |-> "forward", err |-> r.err,
                       arg |-> cur, argval |-> Read(heap, cur),
                       ret |-> IF r.err = "none" THEN r.arr ELSE NoneObj]
           /\ obs' = IF r.err # "none" THEN obs
                     ELSE [flog |-> IF stage.cls = "Cache" THEN Append(obs.flog, cur)
                                    ELSE obs.flog,
                           blog |-> obs.blog,
                           x |-> cur, xval |-> Read(heap, cur)]
    /\ ncalls' = ncalls + 1
    /\ UNCHANGED <<ctor, fac, ten, lin, lin_call, np_random, drop, loss>>

StageBackward ==
    /\ cur # NoneObj
    /\ cur.shape = stage.output_shape
    /\ ncalls < MaxSteps
    /\ LET r == Stage_backward(heap, stage, cur, cur, cur)
       IN  /\ heap' = r.heap
           /\ cur' = IF r.err = "none" THEN r.arr ELSE cur
           /\ stage' = IF stage.cls = "Cache" THEN r.self ELSE stage
           /\ call' = [cls |-> stage.cls, op |-> "backward", err |-> r.err,
                       arg |-> cur, argval |-> Read(heap, cur),
                       ret |-> IF r.err = "none" THEN r.arr ELSE NoneObj]
           /\ obs' = IF stage.cls = "Cache"
                     THEN [obs EXCEPT !.blog = Append(@, cur)] ELSE obs
    /\ ncalls' = ncalls + 1
    /\ UNCHANGED <<ctor, fac, ten, lin, lin_call, np_random, drop, loss>>

CacheClear ==
    /\ stage.cls = "Cache"
    /\ ncalls < MaxSteps
    /\ stage' = Cache_clear(stage)
    /\ call' = [cls |-> "Cache", op |-> "clear"]
    /\ obs' = [obs EXCEPT !.flog = <<>>, !.blog = <<>>]
    /\ ncalls' = ncalls + 1
    /\ UNCHANGED <<ctor, fac, ten, lin, lin_call, heap, cur, np_random, drop, loss>>

\* The in-place stage that follows: forward of a DropOut tagged in-place on
\* the array the first operator returned.
InPlaceStage ==
    /\ cur # NoneObj
    /\ obs.x # NoneObj
    /\ cur.shape = drop[1].input_shape
    /\ ncalls < MaxSteps
    /\ LET r == DropOut_forward(heap, drop[1], cur)
       IN  /\ heap' = r.heap
           /\ cur' = IF r.err = "none" THEN r.arr ELSE cur
           /\ call' = [cls |-> "DropOut", op |-> "inplace", err |-> r.err,
                       arg |-> cur, argval |-> Read(heap, cur),
                       ret |-> IF r.err = "none" THEN r.arr ELSE NoneObj]
    /\ ncalls' = ncalls + 1
    /\ UNCHANGED <<ctor, fac, ten, lin, lin_call, np_random, drop, loss, stage, obs>>

NextPipe ==
    \/ PipeNewArray
    \/ PipeSetRuntimeVars
    \/ StageForward
    \/ StageBackward
    \/ CacheClear
    \/ InPlaceStage

SpecPipe == InitPipe /\ [][NextPipe]_vars

\* C3: a Cache holds in forward_list exactly the arrays given to forward
\* since the last clear, in call order, and in backward_list exactly the dy
\* given to backward since the last clear, in call order; forward returns
\* its x and backward its dy, the same object with its entries unchanged;
\* after clear both lists are empty.
C3_CacheHistories ==
    stage.cls = "Cache" =>
        /\ stage.forward_list = obs.flog
        /\ stage.backward_list = obs.blog
        /\ (call.op \in {"forward", "backward"}) =>
              /\ call.err = "none"
              /\ call.ret = call.arg
              /\ Read(heap, call.ret) = call.argval
        /\ (call.op = "clear") =>
              /\ stage.forward_list = <<>>
              /\ stage.backward_list = <<>>

\* Witness of C3: two different arrays were given to forward and the second
\* one to backward.
C3_Witness ==
    /\ stage.cls = "Cache"
    /\ call.op = "backward"
    /\ Len(stage.forward_list) = 2
    /\ stage.forward_list[1] # stage.forward_list[2]
    /\ stage.backward_list = <<stage.forward_list[2]>>

\* Witness of C3 for clear: a forward call after a clear that followed an
\* earlier call.
C3_ClearWitness ==
    /\ stage.cls = "Cache"
    /\ call.op = "forward"
    /\ ncalls = 3
    /\ Len(stage.forward_list) = 1
    /\ stage.backward_list = <<>>

\* C5: forward of an operator that is not tagged in-place leaves its input
\* alone for good: whatever in-place stage later runs on the y it returned,
\* the x it was given keeps the entries it had at the call.
C5_InputIndependentOfOutput ==
    obs.x # NoneObj => Read(heap, obs.x) = obs.xval

(***************************************************************************)
(* Construction of a loss operator or of SoftMax with a valid axis: the    *)
(* arguments are drawn in the initial state, the constructor runs once.    *)
(* SquareLoss takes no axis; the axis drawn is not passed to it.           *)
(***************************************************************************)
LossOps == {"CrossEntropy", "SoftMaxCrossEntropy", "SquareLoss"}

ValidAxes(shape) == (0 - Len(shape)) .. (Len(shape) - 1)

ConstructLossOp(cls, input_shape, axis) ==
    CASE cls = "CrossEntropy" -> CrossEntropy_init(input_shape, axis)
      [] cls = "SoftMaxCrossEntropy" -> SoftMaxCrossEntropy_init(input_shape, axis)
      [] cls = "SquareLoss" -> SquareLoss_init(input_shape)
      [] cls = "SoftMax" -> SoftMax_init(input_shape, axis)

InitLoss ==
    /\ \E cls \in LossOps \cup {"SoftMax"}, shape \in Shapes \ {<<>>} :
         \E axis \in ValidAxes(shape) :
           ctor = [called |-> FALSE, cls |-> cls, input_shape |-> shape,
                   axis_arg |-> axis, res |-> NoInstance(None)]
    /\ fac = IdleFac
    /\ ten = IdleTen
    /\ lin = IdleLin
    /\ lin_call = IdleLinCall
    /\ IdleRuntime

ConstructLoss ==
    /\ ~ctor.called
    /\ ctor' = [ctor EXCEPT !.called = TRUE,
                            !.res = ConstructLossOp(ctor.cls, ctor.input_shape,
                                                    ctor.axis_arg)]
    /\ UNCHANGED <<fac, ten, lin, lin_call, rt>>

NextLoss == ConstructLoss

SpecLoss == InitLoss /\ [][NextLoss]_vars

\* C11: a loss operator constructed with a valid axis has output_shape
\* equal to input_shape without the reduced axis, so its rank is one less
\* than the input rank (SquareLoss, which takes no axis, included), and
\* SoftMax has output_shape equal to input_shape.
C11_LossOutputShape ==
    ctor.called =>
        /\ ctor.res.err = "none"
        /\ ctor.cls \in LossOps =>
              Len(ctor.res.output_shape) = Len(ctor.input_shape) - 1
        /\ ctor.cls \in {"CrossEntropy", "SoftMaxCrossEntropy"} =>
              ctor.res.output_shape =
                  RemoveAt(ctor.input_shape, ctor.axis_arg % Len(ctor.input_shape))
        /\ ctor.cls = "SoftMax" => ctor.res.output_shape = ctor.input_shape

\* C11 as amended: CrossEntropy and SoftMaxCrossEntropy have output_shape
\* equal to input_shape without the reduced axis for every valid axis,
\* negative ones included; SquareLoss, which is element-wise and takes no
\* axis, and SoftMax have output_shape equal to input_shape.
C11_LossShapesAmended ==
    ctor.called =>
        /\ ctor.res.err = "none"
        /\ ctor.res.input_shape = ctor.input_shape
        /\ ctor.cls \in {"CrossEntropy", "SoftMaxCrossEntropy"} =>
              /\ ctor.res.output_shape =
                    RemoveAt(ctor.input_shape, ctor.axis_arg % Len(ctor.input_shape))
              /\ Len(ctor.res.output_shape) = Len(ctor.input_shape) - 1
        /\ ctor.cls \in {"SquareLoss", "SoftMax"} =>
              ctor.res.output_shape = ctor.input_shape

\* Witness of C11: SoftMaxCrossEntropy on shape (1, 2) with axis -2 has
\* output_shape (2,).
C11_Witness ==
    /\ ctor.called
    /\ ctor.cls = "SoftMaxCrossEntropy"
    /\ ctor.input_shape = <<1, 2>>
    /\ ctor.axis_arg = -2
    /\ ctor.res.output_shape = <<2>>

(***************************************************************************)
(* The windowing algebra and the operators built on it.  scan2csc gives,   *)
(* for every output position in turn, the flattened input positions of    *)
(* its window: with open boundary the output extent of an axis is          *)
(* floor((input - kernel) / stride) + 1 and positions outside the image    *)
(* are skipped; with periodic boundary it is ceil(input / stride) and      *)
(* positions wrap.  Output positions and kernel offsets are enumerated in  *)
(* row-major order; an input position is flattened the way forward         *)
(* flattens the image axes (order='F').                                    *)
(***************************************************************************)
RECURSIVE Flatten(_)
Flatten(ss) == IF ss = <<>> THEN <<>> ELSE Head(ss) \o Flatten(Tail(ss))

\* indptr of the columns: 0 followed by the running total of their lengths.
RECURSIVE RunningTotal(_, _)
RunningTotal(ss, from) ==
    IF ss = <<>> THEN <<from>>
    ELSE <<from>> \o RunningTotal(Tail(ss), from + Len(Head(ss)))

SelectSeqIn(sq, keep) ==
    LET F[i \in 0..Len(sq)] ==
            IF i = 0 THEN <<>>
            ELSE IF keep[i] THEN Append(F[i - 1], sq[i]) ELSE F[i - 1]
    IN  F[Len(sq)]

WindowOutExtent(input, kernel, stride, boundary) ==
    IF boundary = "O" THEN (input - kernel) \div stride + 1
    ELSE (input + stride - 1) \div stride

\* The window of output position o: one entry per kernel offset.
Window(o, kernel_shape, img_in_shape, strides, boundary) ==
    LET n == Len(img_in_shape)
        offs == [q \in 1..tuple_prod(kernel_shape) |-> UnravelC(q - 1, kernel_shape)]
        at(off) == [k \in 1..n |-> o[k] * strides[k] + off[k]]
        inside(pos) == \A k \in 1..n : pos[k] >= 0 /\ pos[k] < img_in_shape[k]
        wrap(pos) == [k \in 1..n |-> pos[k] % img_in_shape[k]]
    IN  IF boundary = "O"
        THEN SelectSeqIn([q \in 1..Len(offs) |-> LinF(at(offs[q]), img_in_shape)],
                         [q \in 1..Len(offs) |-> inside(at(offs[q]))])
        ELSE [q \in 1..Len(offs) |-> LinF(wrap(at(offs[q])), img_in_shape)]

scan2csc(kernel_shape, img_in_shape, strides, boundary) ==
    IF Len(kernel_shape) # Len(img_in_shape) \/ Len(strides) # Len(img_in_shape)
       \/ \E k \in 1..Len(strides) : strides[k] <= 0
    THEN [err |-> "ValueError"]
    ELSE LET n == Len(img_in_shape)
             out == [k \in 1..n |-> WindowOutExtent(img_in_shape[k], kernel_shape[k],
                                                    strides[k], boundary)]
             cols == [j \in 1..tuple_prod(out) |->
                         Window(UnravelC(j - 1, out), kernel_shape, img_in_shape,
                                strides, boundary)]
         IN  [err |-> "none", csc_indptr |-> RunningTotal(cols, 0),
              csc_indices |-> Flatten(cols), img_out_shape |-> out]

Pooling_mode_list == {"max", "max-abs", "min", "min-abs", "mean"}

\* Mutant of Pooling_init: the image axes are taken from the front of
\* input_shape.
Pooling_init_LeadingAxes(input_shape, kernel_shape, mode) ==
    IF mode \notin Pooling_mode_list THEN NoInstance("ValueError")
    ELSE LET nd == Len(kernel_shape)
             w == scan2csc(kernel_shape, PySlice(input_shape, 0, nd),
                           kernel_shape, "O")
         IN  IF w.err # "none" THEN NoInstance(w.err)
             ELSE [err |-> "none", cls |-> "Pooling", input_shape |-> input_shape,
                   output_shape |-> PySlice(input_shape, 0, 0 - nd) \o w.img_out_shape,
                   kernel_shape |-> kernel_shape, mode |-> mode,
                   csc_indptr |-> w.csc_indptr, csc_indices |-> w.csc_indices,
                   img_out_shape |-> w.img_out_shape]

Pooling_init(input_shape, kernel_shape, mode) ==
    IF mode \notin Pooling_mode_list THEN NoInstance("ValueError")
    ELSE LET nd == Len(kernel_shape)
             w == scan2csc(kernel_shape, PySliceFrom(input_shape, 0 - nd),
                           kernel_shape, "O")
         IN  IF w.err # "none" THEN NoInstance(w.err)
             ELSE [err |-> "none", cls |-> "Pooling", input_shape |-> input_shape,
                   output_shape |-> PySlice(input_shape, 0, 0 - nd) \o w.img_out_shape,
                   kernel_shape |-> kernel_shape, mode |-> mode,
                   csc_indptr |-> w.csc_indptr, csc_indices |-> w.csc_indices,
                   img_out_shape |-> w.img_out_shape]

\* ConvProd.__init__: powers is given by its shape; strides None stands for
\* all ones.
ConvProd_init(input_shape, powers_shape, strides, boundary) ==
    LET nd == Len(powers_shape)
        st == IF strides = NoneObj THEN [k \in 1..nd |-> 1] ELSE strides.val
        w == scan2csc(powers_shape, PySliceFrom(input_shape, 0 - nd), st, boundary)
    IN  IF w.err # "none" THEN NoInstance(w.err)
        ELSE [err |-> "none", cls |-> "ConvProd", input_shape |-> input_shape,
              output_shape |-> PySlice(input_shape, 0, 0 - nd) \o w.img_out_shape,
              kernel_shape |-> powers_shape, strides |-> st, boundary |-> boundary,
              csc_indptr |-> w.csc_indptr, csc_indices |-> w.csc_indices,
              img_out_shape |-> w.img_out_shape]

\* img_dim of forward: the number of input pixels.
Window_img_dim(self) ==
    tuple_prod(PySliceFrom(self.input_shape, 0 - Len(self.kernel_shape)))

(***************************************************************************)
(* Construction of a windowed operator: the arguments are drawn in the     *)
(* initial state with the kernel not larger than the image, the            *)
(* constructor runs once.                                                  *)
(***************************************************************************)
ImgShapes == ShapesUpTo(2, MaxImg) \ {<<>>}

KernelsFor(img) ==
    {kr \in [1..Len(img) -> 1..MaxImg] : \A k \in 1..Len(img) : kr[k] <= img[k]}

InitWindow ==
    /\ \E img \in ImgShapes, prefix \in {<<>>, <<2>>} :
         \E kr \in KernelsFor(img) :
           \/ ctor = [called |-> FALSE, cls |-> "Pooling",
                      input_shape |-> prefix \o img, kernel_shape |-> kr,
                      strides |-> [val |-> kr], boundary |-> "O",
                      res |-> NoInstance(None)]
           \/ \E st \in {NoneObj} \cup {[val |-> v] : v \in [1..Len(img) -> 1..MaxImg]},
                 b \in {"O", "P"} :
                ctor = [called |-> FALSE, cls |-> "ConvProd",
                        input_shape |-> prefix \o img, kernel_shape |-> kr,
                        strides |-> st, boundary |-> b, res |-> NoInstance(None)]
    /\ fac = IdleFac
    /\ ten = IdleTen
    /\ lin = IdleLin
    /\ lin_call = IdleLinCall
    /\ IdleRuntime

ConstructWindowed ==
    /\ ~ctor.called
    /\ ctor' = [ctor EXCEPT
                  !.called = TRUE,
                  !.res = IF ctor.cls = "Pooling"
                          THEN Pooling_init(ctor.input_shape, ctor.kernel_shape, "mean")
                          ELSE ConvProd_init(ctor.input_shape, ctor.kernel_shape,
                                             ctor.strides, ctor.boundary)]
    /\ UNCHANGED <<fac, ten, lin, lin_call, rt>>

NextWindow == ConstructWindowed

SpecWindow == InitWindow /\ [][NextWindow]_vars

\* C12: with open boundary, a kernel not larger than the image and positive
\* strides (Pooling: the strides are the kernel shape), the column pointer
\* array has one entry more than there are output pixels and never
\* decreases, the index array is as long as the last column pointer says,
\* and every index is a flattened input position in [0, number of input
\* pixels).
C12_OpenWindowsInRange ==
    (ctor.called /\ ctor.boundary = "O") =>
        LET r == ctor.res
            nd == Len(ctor.kernel_shape)
            img == PySliceFrom(ctor.input_shape, 0 - nd)
            st == IF ctor.strides = NoneObj THEN [k \in 1..nd |-> 1]
                  ELSE ctor.strides.val
        IN  /\ r.err = "none"
            /\ r.img_out_shape =
                  [k \in 1..nd |-> (img[k] - ctor.kernel_shape[k]) \div st[k] + 1]
            /\ Len(r.csc_indptr) = tuple_prod(r.img_out_shape) + 1
            /\ \A j \in 1..(Len(r.csc_indptr) - 1) :
                  r.csc_indptr[j] <= r.csc_indptr[j + 1]
            /\ Len(r.csc_indices) = r.csc_indptr[Len(r.csc_indptr)]
            /\ \A i \in 1..Len(r.csc_indices) :
                  r.csc_indices[i] >= 0 /\ r.csc_indices[i] < Window_img_dim(r)

\* Witness of C12: Pooling with kernel (2,) on a batch of images of 3
\* pixels: one window, pixels 0 and 1.
C12_Witness ==
    /\ ctor.called
    /\ ctor.cls = "Pooling"
    /\ ctor.input_shape = <<2, 3>>
    /\ ctor.kernel_shape = <<2>>
    /\ ctor.res.csc_indptr = <<0, 2>>
    /\ ctor.res.csc_indices = <<0, 1>>
    /\ ctor.res.output_shape = <<2, 1>>


(***************************************************************************)
(* One operator instance through its calls.  The caller holds three arrays *)
(* of the instance's input shape (two inputs and a gradient), makes an     *)
(* instance of a generated type, binds the seed of a DropOut, calls        *)
(* forward on either input, backward with the input and output of the      *)
(* first forward and the gradient array, and clears a Cache.  BatchNorm    *)
(* and the generated types are followed by the values of their arrays,     *)
(* DropOut and Cache by the arrays themselves.                             *)
(***************************************************************************)
AttrNames == {"alpha", "order"}

\* The key orders of the attrs dicts: one or two attributes.
AttrKeys ==
    {<<a>> : a \in AttrNames}
    \cup ({<<a, b>> : a, b \in AttrNames} \ {<<a, a>> : a \in AttrNames})

ProvidedVal == [val |-> 2]

SuppliedVal == [val |-> 3]

\* The attrs dicts given to wrapfunc: every attribute required (None) or
\* provided.
AttrDicts(keys) == [{keys[i] : i \in DOMAIN keys} -> {NoneObj, ProvidedVal}]

\* The keyword arguments of a construction: some of the attributes.
KwargsOf(type) == UNION {[S -> {SuppliedVal}] : S \in SUBSET FieldSet(type)}

InstStages(shape) ==
    {BatchNorm_new(shape, "eps", [val |-> a]) : a \in 0..(Len(shape) - 1)}
    \cup {BatchNorm_new(shape, "eps", NoneObj)}
    \cup {DropOut_new(shape, MaxKeepInv, a, inplace) :
             a \in 0..(Len(shape) - 1), inplace \in BOOLEAN}
    \cup {Cache_init(shape)}

\* The attributes an instance is constructed with.
Frame(self) ==
    CASE self.cls = "BatchNorm" ->
             [input_shape |-> self.input_shape, output_shape |-> self.output_shape,
              axis |-> self.axis, eps |-> self.eps]
      [] self.cls = "DropOut" ->
             [input_shape |-> self.input_shape, output_shape |-> self.output_shape,
              axis |-> self.axis, keep_inv |-> self.keep_inv,
              is_inplace |-> self.is_inplace]
      [] self.cls = "Cache" ->
             [input_shape |-> self.input_shape, output_shape |-> self.output_shape]
      [] self.cls = "Generated" ->
             [input_shape |-> self.input_shape, output_shape |-> self.output_shape,
              fields |-> self.fields]

ByValue(cls) == cls \in {"BatchNorm", "Generated"}

Value_forward(type, self, x) ==
    IF self.cls = "BatchNorm" THEN BatchNorm_forward(self, x)
    ELSE Gen_forward(type, self, x)

Value_backward(type, self, x, y, dy) ==
    IF self.cls = "BatchNorm" THEN BatchNorm_backward(self, x, y, dy)
    ELSE Gen_backward(type, self, x, y, dy)

\* What a call gives its caller: the exception or the value returned.
Returned(r) ==
    [err |-> r.err, val |-> IF r.err = "none" THEN r.val ELSE NoneObj]

InitInst ==
    /\ ctor = IdleCtor
    /\ ten = IdleTen
    /\ lin = IdleLin
    /\ lin_call = IdleLinCall
    /\ cur = NoneObj
    /\ np_random = 0
    /\ drop = <<>>
    /\ loss = [cls |-> None]
    /\ call = IdleCall
    /\ ncalls = 0
    /\ \E shape \in RtShapes :
         LET a1 == Alloc(<<>>, Label(shape), "float64")
             a2 == Alloc(a1.heap, Ones(shape), "float64")
             a3 == Alloc(a2.heap, Label(shape), "float64")
         IN  /\ heap = a3.heap
             /\ \/ /\ stage \in InstStages(shape)
                   /\ fac = IdleFac
                   /\ obs = [x |-> <<a1.arr, a2.arr>>, dy |-> a3.arr,
                             attrs |-> NoneObj, frame |-> Frame(stage),
                             pass |-> NoneObj, expect |-> NoneObj]
                \/ /\ stage = IdleStage
                   /\ \E keys \in AttrKeys : \E attrs \in AttrDicts(keys) :
                        /\ fac = wrapfunc_type(keys, attrs)
                        /\ obs = [x |-> <<a1.arr, a2.arr>>, dy |-> a3.arr,
                                  attrs |-> attrs, frame |-> NoneObj,
                                  pass |-> NoneObj, expect |-> NoneObj]

\* newclass(input_shape, itype, **kwargs) of a generated type.
GenConstruct ==
    /\ obs.attrs # NoneObj
    /\ ncalls < MaxSteps
    /\ \E kwargs \in KwargsOf(fac) :
         LET r == Gen_init(fac, obs.dy.shape, kwargs)
         IN  /\ fac' = r.type
             /\ stage' = IF r.err = "none" THEN r.self ELSE stage
             /\ obs' = IF r.err = "none"
                       THEN [obs EXCEPT !.frame = Frame(r.self), !.pass = NoneObj,
                                        !.expect = NoneObj]
                       ELSE obs
             /\ call' = [cls |-> "Generated", op |-> "construct", err |-> r.err,
                         kwargs |-> kwargs]
    /\ ncalls' = ncalls + 1
    /\ UNCHANGED <<ctor, ten, lin, lin_call, heap, cur, np_random, drop, loss>>

InstSetRuntimeVars ==
    /\ stage.cls = "DropOut"
    /\ stage.seed = NoneObj
    /\ \E sd \in 0..MaxSeed :
         LET r == DropOut_set_runtime_vars(stage, [name |-> "seed", value |-> sd],
                                           np_random)
         IN  /\ stage' = r.self
             /\ np_random' = r.state
             /\ call' = [cls |-> "DropOut", op |-> "set_runtime_vars", err |-> r.err]
    /\ UNCHANGED <<ctor, fac, ten, lin, lin_call, heap, cur, drop, loss, ncalls, obs>>

\* forward of BatchNorm or of a generated instance on the values of an input.
ValueForward ==
    /\ ByValue(stage.cls)
    /\ ncalls < MaxSteps
    /\ \E k \in DOMAIN obs.x :
         LET x == Read(heap, obs.x[k])
             r == Value_forward(fac, stage, x)
         IN  /\ stage' = r.self
             /\ call' = [cls |-> stage.cls, op |-> "forward", err |-> r.err,
                         val |-> IF r.err = "none" THEN r.val ELSE NoneObj]
             /\ obs' = IF r.err = "none" /\ obs.pass = NoneObj
                       THEN [obs EXCEPT !.pass = [x |-> x, y |-> r.val],
                                        !.expect = [val |-> Returned(
                                            Value_backward(fac, r.self, x, r.val,
                                                           Read(heap, obs.dy)))]]
                       ELSE obs
    /\ ncalls' = ncalls + 1
    /\ UNCHANGED <<ctor, fac, ten, lin, lin_call, heap, cur, np_random, drop, loss>>

\* backward((x, y), dy) with the input and output of the first forward.
ValueBackward ==
    /\ ByValue(stage.cls)
    /\ obs.pass # NoneObj
    /\ ncalls < MaxSteps
    /\ LET r == Value_backward(fac, stage, obs.pass.x, obs.pass.y, Read(heap, obs.dy))
       IN  /\ stage' = r.self
           /\ call' = [cls |-> stage.cls, op |-> "backward", err |-> r.err,
                       res |-> Returned(r)]
    /\ ncalls' = ncalls + 1
    /\ UNCHANGED <<ctor, fac, ten, lin, lin_call, heap, cur, np_random, drop, loss, obs>>

\* forward of DropOut or Cache on an input array.
ArrayForward ==
    /\ stage.cls \in {"DropOut", "Cache"}
    /\ ncalls < MaxSteps
    /\ \E k \in DOMAIN obs.x :
         LET r == Stage_forward(heap, stage, obs.x[k])
         IN  /\ heap' = r.heap
             /\ stage' = IF stage.cls = "Cache" THEN r.self ELSE stage
             /\ call' = [cls |-> stage.cls, op |-> "forward", err |-> r.err,
                         ret |-> IF r.err = "none" THEN r.arr ELSE NoneObj]
             /\ obs' = IF r.err = "none" /\ obs.pass = NoneObj
                       THEN [obs EXCEPT !.pass = [x |-> obs.x[k], y |-> r.arr]]
                       ELSE obs
    /\ ncalls' = ncalls + 1
    /\ UNCHANGED <<ctor, fac, ten, lin, lin_call, cur, np_random, drop, loss>>

\* backward((x, y), dy) of DropOut or Cache with the arrays of the first
\* forward and the gradient array.
ArrayBackward ==
    /\ stage.cls \in {"DropOut", "Cache"}
    /\ obs.pass # NoneObj
    /\ ncalls < MaxSteps
    /\ LET r == Stage_backward(heap, stage, obs.pass.x, obs.pass.y, obs.dy)
       IN  /\ heap' = r.heap
           /\ stage' = IF stage.cls = "Cache" THEN r.self ELSE stage
           /\ call' = [cls |-> stage.cls, op |-> "backward", err |-> r.err,
                       xval |-> Read(heap, obs.pass.x),
                       yval |-> Read(heap, obs.pass.y),
                       dyval |-> Read(heap, obs.dy),
                       ret |-> IF r.err = "none" THEN r.arr ELSE NoneObj]
    /\ ncalls' = ncalls + 1
    /\ UNCHANGED <<ctor, fac, ten, lin, lin_call, cur, np_random, drop, loss, obs>>

InstClear ==
    /\ stage.cls = "Cache"
    /\ ncalls < MaxSteps
    /\ stage' = Cache_clear(stage)
    /\ call' = [cls |-> "Cache", op |-> "clear"]
    /\ ncalls' = ncalls + 1
    /\ UNCHANGED <<ctor, fac, ten, lin, lin_call, heap, cur, np_random, drop, loss, obs>>

NextInst ==
    \/ GenConstruct
    \/ InstSetRuntimeVars
    \/ ValueForward
    \/ ValueBackward
    \/ ArrayForward
    \/ ArrayBackward
    \/ InstClear

SpecInst == InitInst /\ [][NextInst]_vars

\* C13: the input_shape, output_shape and construction attributes of an
\* instance (axis, keep_rate, eps, the tag, the attributes of a generated
\* type) equal their values at construction after every sequence of
\* forward, backward, set_runtime_vars and clear calls.
C13_ConstructionAttrsFrozen ==
    stage.cls # None => Frame(stage) = obs.frame

\* Witness of C13: a BatchNorm with a batch axis has run forward and then
\* backward, and holds the statistics of the forward call.
C13_Witness ==
    /\ stage.cls = "BatchNorm"
    /\ stage.axis = [val |-> 0]
    /\ stage.variance # NoneObj
    /\ call.op = "backward"
    /\ call.err = "none"

\* Witness of C13 for a generated type: an instance made with its attribute
\* given has run backward.
C13_GeneratedWitness ==
    /\ stage.cls = "Generated"
    /\ stage.fields = [f \in {"alpha"} |-> SuppliedVal]
    /\ call.op = "backward"

\* Witness of C13 for DropOut: a seed was bound and backward has run.
C13_DropOutWitness ==
    /\ stage.cls = "DropOut"
    /\ stage.mask # NoneObj
    /\ call.op = "backward"


\* C16: the input gradient backward((x, y), dy) returns is the one it
\* returns right after forward(x), whatever forward calls on other inputs
\* came between: for BatchNorm with a batch axis and for instances of a
\* generated type (the type as the factory made it).
C16_BackwardDeterminedByPass ==
    (/\ call.op = "backward"
     /\ ByValue(call.cls)
     /\ stage.cls = "Generated" => fac.attrs = obs.attrs
     /\ stage.cls = "BatchNorm" => stage.axis # NoneObj)
        => call.res = obs.expect.val

\* C17: the attrs of a generated type stay as the factory was given them;
\* a construction that supplies every attribute succeeds; a construction
\* that omits only attributes with a provided value succeeds and takes the
\* provided values; forward and backward pass every declared attribute of
\* the instance to f and g.
C17_TypeUnchanged ==
    /\ obs.attrs # NoneObj => fac.attrs = obs.attrs
    /\ (call.op = "construct" /\ DOMAIN call.kwargs = FieldSet(fac)) =>
           call.err = "none"
    /\ (/\ call.op = "construct"
        /\ \A f \in FieldSet(fac) \ DOMAIN call.kwargs : obs.attrs[f] # NoneObj) =>
           /\ call.err = "none"
           /\ \A f \in FieldSet(fac) \ DOMAIN call.kwargs :
                 stage.fields[f] = obs.attrs[f]
    /\ (call.cls = "Generated" /\ call.op = "forward") =>
           /\ call.err = "none"
           /\ call.val.kwargs = stage.fields
    /\ (call.cls = "Generated" /\ call.op = "backward") =>
           /\ call.err = "none"
           /\ call.res.val.kwargs = stage.fields

\* C18: DropOut.backward returns the dy array it was given, that array
\* holds the gradient it held before the call masked and scaled (so a second
\* call scales the kept positions again and leaves the dropped ones zero),
\* whatever the is_inplace tag, and the arrays x and y hold what they held
\* before the call.
C18_BackwardInPlaceOnDy ==
    (call.cls = "DropOut" /\ call.op = "backward") =>
        /\ call.err = "none"
        /\ call.ret = obs.dy
        /\ Read(heap, obs.dy) =
               Masked(call.dyval, stage.mask.val, stage.axis, stage.keep_inv)
        /\ Read(heap, obs.pass.x) = call.xval
        /\ Read(heap, obs.pass.y) = call.yval

\* Witness of C18: the second backward call of a DropOut that is not tagged
\* in-place, with keep_rate 1/2 and a mask that keeps the first position of
\* axis 0: dy = [[1,2],[3,4]] holds [[4,8],[0,0]] after it.
C18_Witness ==
    /\ call.cls = "DropOut"
    /\ call.op = "backward"
    /\ ~stage.is_inplace
    /\ stage.axis = 0
    /\ stage.mask = [val |-> <<TRUE, FALSE>>]
    /\ call.dyval = Masked(Label(<<2, 2>>), <<TRUE, FALSE>>, 0, 2)
    /\ Read(heap, obs.dy) =
           Tensor(<<2, 2>>, [idx \in Indices(<<2, 2>>) |->
                               IF idx = <<0, 0>> THEN 4
                               ELSE IF idx = <<0, 1>> THEN 8 ELSE 0])
    /\ obs.pass.y # obs.pass.x

\* Witness of C18 for an instance tagged in-place: x and y are one array.
C18_InPlaceWitness ==
    /\ call.cls = "DropOut"
    /\ call.op = "backward"
    /\ stage.is_inplace
    /\ obs.pass.y = obs.pass.x
    /\ stage.mask = [val |-> <<TRUE, FALSE>>]

====
